---------------------------- MODULE Spec2Model ----------------------------
(***************************************************************************)
(* A model of the JMESPath engine of rust-jmespath: the value model and    *)
(* its equality, the function runtime (signatures, arity and type checks,  *)
(* registries and runtimes) and the tree-walking interpreter (projections, *)
(* scopes).                                                                *)
(***************************************************************************)
EXTENDS Integers, Sequences, FiniteSets, TLC

(***************************************************************************)
(* Bounds of the model.                                                    *)
(***************************************************************************)
MaxParams == 3
MaxArgs == 4
MaxRuntimes == 2
MaxLen == 2
MaxEqLen == 1

\* The widths of the number model: f64::MAX and i64::MAX, F64Max > I64Max.
F64Max == 6

I64Max == 4

VARIABLES
    REGISTRY,   \* the process-wide lazy_static registry
    runtimes,   \* the Runtime values created so far
    last,       \* the last operation on a runtime and its outcome
    call,       \* a function declaration, an argument vector and the outcome of the call
    eval,       \* an interpreter evaluation: AST, root value and result
    eq,         \* three values under comparison
    threads,    \* the threads of a program that searches concurrently
    parse,      \* a reduction of the parser: its operands and the node it built
    errors      \* three errors under comparison

vars == <<REGISTRY, runtimes, last, call, eval, eq, threads, parse, errors>>

Idle == [op |-> "idle"]

(***************************************************************************)
(* Small helpers over sequences.                                           *)
(***************************************************************************)
SeqsUpTo(S, n) == UNION {[1..k -> S] : k \in 0..n}

Last(s) == s[Len(s)]

Abs(x) == IF x < 0 THEN -x ELSE x

Min2(a, b) == IF a < b THEN a ELSE b

(***************************************************************************)
(* The value model (value.rs): a tagged sum.  A number n + e * 2^-53 is    *)
(* kept as its whole part n and e, a count of half machine epsilons        *)
(* (only numbers below 1 carry a non-zero e: above, doubles are too        *)
(* sparse).  A string is its sequence of Unicode scalar values.  An        *)
(* object is the sequence of its <<key, value>> entries in iteration       *)
(* order.                                                                  *)
(***************************************************************************)
Null == [t |-> "null"]

Boolean(b) == [t |-> "bool", b |-> b]

Number(n) == [t |-> "num", n |-> n, e |-> 0]

NumberEps(n, e) == [t |-> "num", n |-> n, e |-> e]

String(s) == [t |-> "str", s |-> s]

Array(a) == [t |-> "arr", a |-> a]

Object(o) == [t |-> "obj", o |-> o]

Expression(ast) == [t |-> "expr", ast |-> ast]

is_null(v) == v.t = "null"

is_array(v) == v.t = "arr"

is_bool(v) == v.t = "bool"

is_expression(v) == v.t = "expr"

is_number(v) == v.t = "num"

is_object(v) == v.t = "obj"

is_str(v) == v.t = "str"

is_falsy(v) ==
    CASE v.t = "arr" -> v.a = <<>>
      [] v.t = "bool" -> ~v.b
      [] v.t = "null" -> TRUE
      [] v.t = "str" -> v.s = <<>>
      [] v.t = "obj" -> v.o = <<>>
      [] OTHER -> FALSE

is_truthy(v) == ~is_falsy(v)

(***************************************************************************)
(* An Option is a record that says whether it holds a value.               *)
(***************************************************************************)
NoneOf == [some |-> FALSE, v |-> Null]

SomeOf(x) == [some |-> TRUE, v |-> x]

(***************************************************************************)
(* Results: Ok(value) or Err(kind), and a panic, which is no returned      *)
(* error but the abort of the call.  An error holds its kind, what its     *)
(* message says and its position, an Option (errors/error.rs).             *)
(***************************************************************************)
Position(line, column) == [line |-> line, column |-> column]

Ok(v) == [kind |-> "Ok", value |-> v, detail |-> "", position |-> NoneOf, executed |-> FALSE]

\* An error built without at().
Err(kind, detail) ==
    [kind |-> kind, value |-> Null, detail |-> detail, position |-> NoneOf, executed |-> FALSE]

\* An error built with at(position).
ErrAt(kind, detail, position) ==
    [kind |-> kind, value |-> Null, detail |-> detail, position |-> SomeOf(position),
     executed |-> FALSE]

Panic(detail) ==
    [kind |-> "Panic", value |-> Null, detail |-> detail, position |-> NoneOf, executed |-> FALSE]

IsOk(r) == r.kind = "Ok"

(***************************************************************************)
(* Signatures (functions/signature.rs).  A parameter is its kind, "r"      *)
(* (Required), "o" (Optional) or "v" (Variadic), and the data types it     *)
(* accepts: one for ParamTypes::Of, several for ParamTypes::Any.           *)
(***************************************************************************)
Parameter(kind, types) == [kind |-> kind, types |-> types]

Required(types) == Parameter("r", types)

Optional(types) == Parameter("o", types)

Variadic(types) == Parameter("v", types)

is_variadic(parameters) ==
    IF parameters = <<>> THEN FALSE ELSE Last(parameters).kind = "v"

get_min_args_count_required(parameters) ==
    Cardinality({i \in 1..Len(parameters) : parameters[i].kind = "r"})

get_min_args_count(parameters) ==
    Cardinality({i \in 1..Len(parameters) : parameters[i].kind = "r" \/ parameters[i].kind = "v"})

\* None is modelled as -1: no maximum.
get_max_args_count(parameters) ==
    IF is_variadic(parameters) THEN -1 ELSE Len(parameters)


(***************************************************************************)
(* Function construction (functions/function.rs, the function! macro).     *)
(* new() turns the signature into a string of the initials of its          *)
(* parameters' kinds and matches it against ^r*(o+|v)?$; it panics when    *)
(* the match fails.  A declaration is what is written in the macro call:   *)
(* a name, the parameters and a body.                                      *)
(***************************************************************************)
SignatureExpression(signature) == [i \in 1..Len(signature) |-> signature[i].kind]

\* r* is greedy: it takes the longest run of leading "r".
LeadingRequired(expression) ==
    CHOOSE k \in 0..Len(expression) :
        /\ \A i \in 1..k : expression[i] = "r"
        /\ k < Len(expression) => expression[k + 1] # "r"

RegexIsMatchLoose(expression) ==
    LET k == LeadingRequired(expression)
    IN \A i \in (k + 1)..Len(expression) : expression[i] \in {"o", "v"}

RegexIsMatch(expression) ==
    LET k == LeadingRequired(expression)
        rest == SubSeq(expression, k + 1, Len(expression))
    IN \/ rest = <<>>
       \/ Len(rest) >= 1 /\ \A i \in 1..Len(rest) : rest[i] = "o"
       \/ rest = <<"v">>

FunctionNew(decl) ==
    IF RegexIsMatch(SignatureExpression(decl.signature))
    THEN [panic |-> FALSE, func |-> [name |-> decl.name, signature |-> decl.signature, body |-> decl.body]]
    ELSE [panic |-> TRUE, func |-> [name |-> decl.name, signature |-> <<>>, body |-> "none"]]

(***************************************************************************)
(* The arity and type checks of a call (runtime.rs).                       *)
(***************************************************************************)
matches_data_type(arg, data_types) ==
    \E i \in 1..Len(data_types) :
        CASE data_types[i] = "Any" -> TRUE
          [] data_types[i] = "Null" -> FALSE
          [] data_types[i] = "Array" -> is_array(arg)
          [] data_types[i] = "Boolean" -> is_bool(arg)
          [] data_types[i] = "ExpRef" -> is_expression(arg)
          [] data_types[i] = "Number" -> is_number(arg)
          [] data_types[i] = "Object" -> is_object(arg)
          [] data_types[i] = "String" -> is_str(arg)

ensure_matches_data_type(arg, data_types) ==
    IF matches_data_type(arg, data_types) THEN Ok(Null) ELSE Err("InvalidType", "")

ensure_matches_parameter(arg, param) == ensure_matches_data_type(arg, param.types)

ensure_arity(func, args) ==
    LET params == func.signature
        count == Len(args)
        max_count == get_max_args_count(params)
        min_count == get_min_args_count(params)
    IN IF count < min_count THEN Err("InvalidArity", "too_few")
       ELSE IF max_count # -1 /\ count > max_count THEN Err("InvalidArity", "too_many")
       ELSE Ok(Null)

\* The for loop of ensure_type over the specified parameters, from the
\* 0-based index i on: the error of the first argument that fails, or the
\* value last_index has when the loop ends.
RECURSIVE EnsureTypeFor(_, _, _, _)
EnsureTypeFor(params, args, i, last_index) ==
    IF i >= Len(args) \/ i >= Len(params)
    THEN [err |-> FALSE, res |-> Ok(Null), last_index |-> last_index]
    ELSE LET checked == ensure_matches_parameter(args[i + 1], params[i + 1])
         IN IF IsOk(checked)
            THEN EnsureTypeFor(params, args, i + 1, i)
            ELSE [err |-> TRUE, res |-> checked, last_index |-> i]

\* args.len() - 1 on usize.  With overflow checks (a debug build) 0 - 1
\* panics; without (a release build) it wraps to usize::MAX, which every
\* index the loop can hold is below.
ArgsLenMinusOne(args, overflow_checks) ==
    IF Len(args) > 0 THEN [panic |-> FALSE, wrapped |-> FALSE, n |-> Len(args) - 1]
    ELSE IF overflow_checks THEN [panic |-> TRUE, wrapped |-> FALSE, n |-> 0]
    ELSE [panic |-> FALSE, wrapped |-> TRUE, n |-> 0]

\* The while loop of ensure_type over the additional variadic arguments;
\* last_index is its value before the condition block increments it.
RECURSIVE EnsureTypeWhile(_, _, _, _)
EnsureTypeWhile(params, args, last_index, overflow_checks) ==
    LET li == last_index + 1
        bound == ArgsLenMinusOne(args, overflow_checks)
    IN IF bound.panic THEN Panic("attempt to subtract with overflow")
       ELSE IF ~(bound.wrapped \/ li < bound.n) THEN Ok(Null)
       ELSE IF params = <<>> THEN Panic("assertion failed: param.is_some()")
       ELSE IF Last(params).kind # "v" THEN Panic("assertion failed: Parameter::Variadic")
       ELSE IF li >= Len(args) THEN Panic("index out of bounds")
       ELSE LET checked == ensure_matches_parameter(args[li + 1], Last(params))
            IN IF IsOk(checked)
               THEN EnsureTypeWhile(params, args, li + 1, overflow_checks)
               ELSE checked

ensure_type(func, args, overflow_checks) ==
    LET params == func.signature
        specified == EnsureTypeFor(params, args, 0, 0)
    IN IF specified.err THEN specified.res
       ELSE EnsureTypeWhile(params, args, specified.last_index, overflow_checks)


(***************************************************************************)
(* Maps.  A Map<String, T> is a function from its keys.                    *)
(***************************************************************************)
\* An insert that keeps the value a key already has.
MapInsertIfAbsent(map, key, x) == IF key \in DOMAIN map THEN map ELSE (key :> x) @@ map

EmptyMap == [key \in {} |-> Null]

MapInsert(map, key, x) == [n \in DOMAIN map \cup {key} |-> IF n = key THEN x ELSE map[n]]

MapGet(map, key) == IF key \in DOMAIN map THEN SomeOf(map[key]) ELSE NoneOf

(***************************************************************************)
(* AST nodes (parser/ast.rs, parser/node_type.rs).  A node is written      *)
(* with its position where an operation reads it; a node written without   *)
(* one is at Position::default().                                          *)
(***************************************************************************)
AstMake(node_type, position) == ("position" :> position) @@ node_type

\* Every node at Position::default().
PositionOfDefault(ast) == Position(0, 0)

PositionOf(ast) == IF "position" \in DOMAIN ast THEN ast.position ELSE Position(0, 0)

NoneNode == [k |-> "None"]

CurrentNode == [k |-> "CurrentNode"]

RootNode == [k |-> "RootNode"]

UnquotedIdentifier(name) == [k |-> "UnquotedIdentifier", name |-> name]

RawString(s) == [k |-> "RawString", s |-> s]

VariableRef(name) == [k |-> "VariableRef", name |-> name]

ExpressionNode(node) == [k |-> "Expression", nodes |-> <<node>>]

SubExpression(left, right) == [k |-> "SubExpression", nodes |-> <<left, right>>]

PipeExpression(left, right) == [k |-> "PipeExpression", nodes |-> <<left, right>>]

MultiSelectList(nodes) == [k |-> "MultiSelectList", nodes |-> nodes]

Filter(predicate) == [k |-> "Filter", nodes |-> <<predicate>>]

Flatten == [k |-> "Flatten"]

ListWildcard == [k |-> "ListWildcard"]

\* The Option<isize> of a slice bound.
NoIndex == [some |-> FALSE, v |-> 0]

SomeIndex(n) == [some |-> TRUE, v |-> n]

Slice(start, stop, step) == [k |-> "Slice", start |-> start, stop |-> stop, step |-> step]

Projection(kind, left, right) == [k |-> "Projection", nodes |-> <<kind, left, right>>]

HashWildcardProjection(left, right) == [k |-> "HashWildcardProjection", nodes |-> <<left, right>>]

LetBindings(bindings) == [k |-> "LetBindings", nodes |-> bindings]

LetExpression(bindings, body) == [k |-> "LetExpression", nodes |-> <<LetBindings(bindings), body>>]

FunctionArguments(args) == [k |-> "FunctionArguments", nodes |-> args]

FunctionExpression(name, args) ==
    [k |-> "FunctionExpression", nodes |-> <<UnquotedIdentifier(name), FunctionArguments(args)>>]

\* Plus, Minus, Multiply, Divide, Modulo, Div, Equal, NotEqual, LessThan,
\* LessThanOrEqual, GreaterThan, GreaterThanOrEqual, And, Or, Not: a node
\* with no content, at the position of its token.
OperatorNode(node_type, position) == AstMake([k |-> node_type], position)

\* [left, Number(index)]
IndexExpression(left, index) ==
    [k |-> "IndexExpression", nodes |-> <<left, [k |-> "Number", number |-> index]>>]

\* [left, operator, right]; [None, operator, right] for a unary + or -.
ArithmeticExpression(nodes) == [k |-> "ArithmeticExpression", nodes |-> nodes]

ComparatorExpression(nodes) == [k |-> "ComparatorExpression", nodes |-> nodes]

\* [left, operator, right]; [Not, right] for a negation.
LogicalExpression(nodes) == [k |-> "LogicalExpression", nodes |-> nodes]

(***************************************************************************)
(* Scopes (scopes.rs): a chain of frames, the newest first.  The empty     *)
(* chain is the interpreter's scopes: None.                                *)
(***************************************************************************)
ScopesNew(bindings) == <<bindings>>

ScopesWithScope(scopes, bindings) == <<bindings>> \o scopes

RECURSIVE ScopesGetOutermost(_, _)
ScopesGetOutermost(scopes, identifier) ==
    IF scopes = <<>> THEN NoneOf
    ELSE LET outer == ScopesGetOutermost(Tail(scopes), identifier)
         IN IF outer.some THEN outer ELSE MapGet(scopes[1], identifier)

RECURSIVE ScopesGet(_, _)
ScopesGet(scopes, identifier) ==
    IF scopes = <<>> THEN NoneOf
    ELSE IF identifier \in DOMAIN scopes[1] THEN SomeOf(scopes[1][identifier])
    ELSE ScopesGet(Tail(scopes), identifier)

(***************************************************************************)
(* The registries (registry.rs) and the lookup of a runtime (runtime.rs).  *)
(* A runtime is its own registry, an Option; the shared registry is the    *)
(* static REGISTRY, passed where it is read.                               *)
(***************************************************************************)
BuiltinDeclarations ==
    << [name |-> "abs", signature |-> <<Required(<<"Number">>)>>, body |-> "abs"],
       [name |-> "length", signature |-> <<Required(<<"Array", "Object", "String">>)>>, body |-> "length"],
       [name |-> "min_by", signature |-> <<Required(<<"Array">>), Required(<<"ExpRef">>)>>, body |-> "min_by"],
       [name |-> "reverse", signature |-> <<Required(<<"Array", "String">>)>>, body |-> "reverse"] >>

RegistryNew == [functions |-> EmptyMap]

RegistryRegister(registry, func) ==
    [functions |-> MapInsert(registry.functions, func.name, func)]

RegistryGet(registry, function_name) == MapGet(registry.functions, function_name)

RECURSIVE register_builtin_functions(_, _)
register_builtin_functions(registry, i) ==
    IF i > Len(BuiltinDeclarations) THEN registry
    ELSE register_builtin_functions(
            RegistryRegister(registry, FunctionNew(BuiltinDeclarations[i]).func), i + 1)

create_registry == register_builtin_functions(RegistryNew, 1)

get_shared_runtime == [registry |-> NoneOf]

create_runtime == [registry |-> SomeOf(create_registry)]

RuntimeRegisterIntoShared(runtime, shared_registry, func) ==
    IF runtime.registry.some
    THEN [panic |-> FALSE,
          runtime |-> [registry |-> SomeOf(RegistryRegister(runtime.registry.v, func))],
          shared |-> shared_registry]
    ELSE [panic |-> FALSE, runtime |-> runtime, shared |-> RegistryRegister(shared_registry, func)]

\* Runtime::register: the runtime and the shared registry after it.
RuntimeRegister(runtime, shared_registry, func) ==
    IF runtime.registry.some
    THEN [panic |-> FALSE,
          runtime |-> [registry |-> SomeOf(RegistryRegister(runtime.registry.v, func))],
          shared |-> shared_registry]
    ELSE [panic |-> TRUE, runtime |-> runtime, shared |-> shared_registry]

RuntimeGet(runtime, shared_registry, function_name) ==
    IF runtime.registry.some
    THEN RegistryGet(runtime.registry.v, function_name)
    ELSE RegistryGet(shared_registry, function_name)


(***************************************************************************)
(* The interpreter (interpreter.rs).  An interpreter is its root value,    *)
(* its runtime (with the shared registry the runtime points to), its       *)
(* scopes and the build's overflow checks.                                 *)
(***************************************************************************)
Interpreter(runtime, shared_registry, root, overflow_checks) ==
    [root |-> root, runtime |-> runtime, shared |-> shared_registry,
     scopes |-> <<>>, overflow_checks |-> overflow_checks]

InterpreterWithScope(ip, bindings) ==
    [ip EXCEPT !.scopes = IF ip.scopes = <<>> THEN ScopesNew(bindings)
                          ELSE ScopesWithScope(ip.scopes, bindings)]

ObjectContainsKey(o, key) == \E i \in 1..Len(o) : o[i][1] = key

ObjectIndex(o, key) == o[CHOOSE i \in 1..Len(o) : o[i][1] = key][2]

ObjectValues(o) == [i \in 1..Len(o) |-> o[i][2]]

RECURSIVE SelectSeq2(_, _)
\* The elements of a sequence that are not Null, in order.
SelectSeq2(s, i) ==
    IF i > Len(s) THEN <<>>
    ELSE IF is_null(s[i]) THEN SelectSeq2(s, i + 1)
    ELSE <<s[i]>> \o SelectSeq2(s, i + 1)

RECURSIVE Visit(_, _, _)

RECURSIVE RuntimeCall(_, _, _, _, _)

RECURSIVE ValueEq(_, _)

visit_identifier(ast, value) ==
    IF is_expression(value) THEN Panic("unreachable")
    ELSE IF is_object(value)
    THEN IF ObjectContainsKey(value.o, ast.name)
         THEN Ok(ObjectIndex(value.o, ast.name))
         ELSE Ok(Null)
    ELSE Ok(Null)

visit_variable_ref(ip, ast) ==
    LET found == ScopesGet(ip.scopes, ast.name)
    IN IF found.some THEN Ok(found.v) ELSE Err("UndefinedVariable", ast.name)

visit_expref(nodes) ==
    IF Len(nodes) # 1 THEN Panic("assertion failed") ELSE Ok(Expression(nodes[1]))

RECURSIVE MultiSelectListEach(_, _, _, _, _)
MultiSelectListEach(ip, nodes, value, i, array) ==
    IF i > Len(nodes) THEN Ok(Array(array))
    ELSE LET item == Visit(ip, nodes[i], value)
         IN IF IsOk(item)
            THEN MultiSelectListEach(ip, nodes, value, i + 1, Append(array, item.value))
            ELSE item

visit_multi_select_list(ip, nodes, value) == MultiSelectListEach(ip, nodes, value, 1, <<>>)

visit_pipe_expression(ip, nodes, value) ==
    LET left == Visit(ip, nodes[1], value)
    IN IF IsOk(left) THEN Visit(ip, nodes[2], left.value) ELSE left

\* A sub-expression that evaluates its right-hand side against Null too.
visit_sub_expression_through_null(ip, nodes, value) ==
    LET left == Visit(ip, nodes[1], value)
    IN IF IsOk(left) THEN Visit(ip, nodes[2], left.value) ELSE left

visit_sub_expression(ip, nodes, value) ==
    LET left == Visit(ip, nodes[1], value)
    IN IF ~IsOk(left) THEN left
       ELSE IF is_null(left.value) THEN Ok(Null)
       ELSE Visit(ip, nodes[2], left.value)

\* The loop that passes each projected element through the tail and keeps
\* what is not Null.
RECURSIVE ProjectEachKeepingNull(_, _, _, _, _)
ProjectEachKeepingNull(ip, node, array, i, result) ==
    IF i > Len(array) THEN Ok(Array(result))
    ELSE LET right == Visit(ip, node, array[i])
         IN IF ~IsOk(right) THEN right
            ELSE ProjectEachKeepingNull(ip, node, array, i + 1, Append(result, right.value))

RECURSIVE ProjectEach(_, _, _, _, _)
ProjectEach(ip, node, array, i, result) ==
    IF i > Len(array) THEN Ok(Array(result))
    ELSE LET right == Visit(ip, node, array[i])
         IN IF ~IsOk(right) THEN right
            ELSE ProjectEach(ip, node, array, i + 1,
                    IF ~is_null(right.value) THEN Append(result, right.value) ELSE result)

\* The left operand of a projection: the current value for a None node.
VisitOrCurrent(ip, node, value) ==
    IF node.k = "None" THEN Ok(value) ELSE Visit(ip, node, value)

visit_hash_wildcard_projection(ip, nodes, value) ==
    LET object == VisitOrCurrent(ip, nodes[1], value)
    IN IF ~IsOk(object) THEN object
       ELSE IF is_object(object.value)
       THEN LET values == SelectSeq2(ObjectValues(object.value.o), 1)
            IN IF nodes[2].k = "None" THEN Ok(Array(values))
               ELSE ProjectEach(ip, nodes[2], values, 1, <<>>)
       ELSE Ok(Null)

RECURSIVE FilterEach(_, _, _, _, _)
FilterEach(ip, predicate, array, i, result) ==
    IF i > Len(array) THEN Ok(Array(result))
    ELSE LET filtered == Visit(ip, predicate, array[i])
         IN IF ~IsOk(filtered) THEN filtered
            ELSE FilterEach(ip, predicate, array, i + 1,
                    IF is_truthy(filtered.value) THEN Append(result, array[i]) ELSE result)

filter(ip, nodes, value) ==
    LET array == VisitOrCurrent(ip, nodes[2], value)
    IN IF ~IsOk(array) THEN array
       ELSE IF is_array(array.value)
       THEN IF nodes[1].k = "Filter"
            THEN FilterEach(ip, nodes[1].nodes[1], array.value.a, 1, <<>>)
            ELSE Panic("unreachable")
       ELSE Ok(Null)

RECURSIVE flatten_array(_, _)
flatten_array(array, i) ==
    IF i > Len(array) THEN <<>>
    ELSE (IF is_array(array[i]) THEN array[i].a ELSE <<array[i]>>) \o flatten_array(array, i + 1)

flatten(ip, node, value) ==
    LET array == VisitOrCurrent(ip, node, value)
    IN IF ~IsOk(array) THEN array
       ELSE IF is_array(array.value) THEN Ok(Array(flatten_array(array.value.a, 1)))
       ELSE Ok(Null)

list_wildcard(ip, node, value) ==
    LET array == VisitOrCurrent(ip, node, value)
    IN IF ~IsOk(array) THEN array
       ELSE IF is_array(array.value) THEN array
       ELSE Ok(Null)

\* ceil(a / b) of two integers, b # 0, as the f64 division and ceil() give it.
CeilDiv(a, b) ==
    IF b > 0 THEN -((-a) \div b) ELSE -(a \div (-b))

\* (array_length - 1) as isize: 0 - 1 on usize panics with overflow checks
\* and wraps to usize::MAX without, which the cast turns into -1.
ArrayLengthMinusOne(array_length, overflow_checks) ==
    IF array_length > 0 THEN [panic |-> FALSE, n |-> array_length - 1]
    ELSE IF overflow_checks THEN [panic |-> TRUE, n |-> 0]
    ELSE [panic |-> FALSE, n |-> -1]

compute_slice_params(slice, array_length, position, overflow_checks) ==
    LET len == array_length
        step == IF slice.step.some THEN slice.step.v ELSE 1
        default_start == IF step > 0 THEN [panic |-> FALSE, n |-> 0]
                         ELSE ArrayLengthMinusOne(array_length, overflow_checks)
        start == IF slice.start.some
                 THEN (IF slice.start.v < 0 THEN slice.start.v + len ELSE slice.start.v)
                 ELSE default_start.n
        stop == IF slice.stop.some
                THEN (IF slice.stop.v < 0 THEN slice.stop.v + len ELSE slice.stop.v)
                ELSE (IF step > 0 THEN array_length ELSE -1)
    IN IF step = 0
       THEN [res |-> ErrAt("InvalidValue", "slice step cannot be 0", position),
             start |-> 0, stop |-> 0, step |-> 0]
       ELSE IF default_start.panic
       THEN [res |-> Panic("attempt to subtract with overflow"), start |-> 0, stop |-> 0, step |-> 0]
       ELSE [res |-> Ok(Null), start |-> start, stop |-> stop, step |-> step]

RECURSIVE SliceArrayFrom(_, _, _, _, _)
SliceArrayFrom(vector, start, step, end, n) ==
    IF n >= end THEN <<>>
    ELSE LET index == start + n * step
         IN (IF index >= 0 /\ index < Len(vector) THEN <<vector[index + 1]>> ELSE <<>>)
            \o SliceArrayFrom(vector, start, step, end, n + 1)

slice_array(vector, start, stop, step) ==
    SliceArrayFrom(vector, start, step, CeilDiv(stop - start, step), 0)

slice(ip, slice_node, node, value, position) ==
    LET array == VisitOrCurrent(ip, node, value)
    IN IF ~IsOk(array) THEN array
       ELSE IF is_array(array.value)
       THEN LET params == compute_slice_params(slice_node, Len(array.value.a), position, ip.overflow_checks)
            IN IF ~IsOk(params.res) THEN params.res
               ELSE Ok(Array(slice_array(array.value.a, params.start, params.stop, params.step)))
       ELSE IF is_str(array.value)
       THEN LET params == compute_slice_params(slice_node, Len(array.value.s), position, ip.overflow_checks)
            IN IF ~IsOk(params.res) THEN params.res
               ELSE Ok(String(slice_array(array.value.s, params.start, params.stop, params.step)))
       ELSE Ok(Null)

\* The first step of visit_projection: the projected elements.
ProjectionLeft(ip, nodes, value) ==
    CASE nodes[1].k = "Filter" -> filter(ip, nodes, value)
      [] nodes[1].k = "Flatten" -> flatten(ip, nodes[2], value)
      [] nodes[1].k = "ListWildcard" -> list_wildcard(ip, nodes[2], value)
      [] nodes[1].k = "Slice" -> slice(ip, nodes[1], nodes[2], value, PositionOf(nodes[1]))
      [] OTHER -> Panic("unreachable")

visit_projection_keeping_null(ip, nodes, value) ==
    LET left == ProjectionLeft(ip, nodes, value)
    IN IF ~IsOk(left) THEN left
       ELSE IF nodes[3].k = "None" THEN left
       ELSE IF is_array(left.value) THEN ProjectEachKeepingNull(ip, nodes[3], left.value.a, 1, <<>>)
       ELSE IF is_str(left.value) THEN Visit(ip, nodes[3], left.value)
       ELSE Ok(Null)

visit_projection(ip, nodes, value) ==
    LET left == ProjectionLeft(ip, nodes, value)
    IN IF ~IsOk(left) THEN left
       ELSE IF nodes[3].k = "None" THEN left
       ELSE IF is_array(left.value) THEN ProjectEach(ip, nodes[3], left.value.a, 1, <<>>)
       ELSE IF is_str(left.value) THEN Visit(ip, nodes[3], left.value)
       ELSE Ok(Null)

RECURSIVE FunctionArgumentsEach(_, _, _, _, _)
FunctionArgumentsEach(ip, function_args, value, i, arguments) ==
    IF i > Len(function_args) THEN [res |-> Ok(Null), arguments |-> arguments]
    ELSE LET argument == Visit(ip, function_args[i], value)
         IN IF IsOk(argument)
            THEN FunctionArgumentsEach(ip, function_args, value, i + 1, Append(arguments, argument.value))
            ELSE [res |-> argument, arguments |-> arguments]

visit_function_expression(ip, ast, value) ==
    LET evaluated == FunctionArgumentsEach(ip, ast[2].nodes, value, 1, <<>>)
    IN IF ~IsOk(evaluated.res) THEN evaluated.res
       ELSE RuntimeCall(ip.runtime, ip.shared, ast[1].name, evaluated.arguments, ip)

\* The loop of visit_let_expression over the bindings, from the 0-based
\* index on: the names are at the even indexes, each followed by its
\* expression.
RECURSIVE LetBindingsEach(_, _, _, _, _)
LetBindingsEach(ip, bindings, value, index, scopes) ==
    IF index >= Len(bindings) THEN [res |-> Ok(Null), scopes |-> scopes]
    ELSE IF index % 2 # 0 THEN LetBindingsEach(ip, bindings, value, index + 1, scopes)
    ELSE LET bound == Visit(ip, bindings[index + 2], value)
         IN IF IsOk(bound)
            THEN LetBindingsEach(ip, bindings, value, index + 1,
                    MapInsert(scopes, bindings[index + 1].name, bound.value))
            ELSE [res |-> bound, scopes |-> scopes]

\* A let expression whose bindings each see the ones before them.
RECURSIVE LetBindingsEachSequential(_, _, _, _, _)
LetBindingsEachSequential(ip, bindings, value, index, scopes) ==
    IF index >= Len(bindings) THEN [res |-> Ok(Null), scopes |-> scopes]
    ELSE IF index % 2 # 0 THEN LetBindingsEachSequential(ip, bindings, value, index + 1, scopes)
    ELSE LET bound == Visit(InterpreterWithScope(ip, scopes), bindings[index + 2], value)
         IN IF IsOk(bound)
            THEN LetBindingsEachSequential(ip, bindings, value, index + 1,
                    MapInsert(scopes, bindings[index + 1].name, bound.value))
            ELSE [res |-> bound, scopes |-> scopes]

visit_let_expression_sequential(ip, ast, value) ==
    LET bound == LetBindingsEachSequential(ip, ast[1].nodes, value, 0, EmptyMap)
    IN IF ~IsOk(bound.res) THEN bound.res
       ELSE Visit(InterpreterWithScope(ip, bound.scopes), ast[2], value)

visit_let_expression(ip, ast, value) ==
    LET bound == LetBindingsEach(ip, ast[1].nodes, value, 0, EmptyMap)
    IN IF ~IsOk(bound.res) THEN bound.res
       ELSE Visit(InterpreterWithScope(ip, bound.scopes), ast[2], value)

\* An index expression that adds no length to a negative index.
visit_index_expression_from_start(ip, nodes, value) ==
    LET array == VisitOrCurrent(ip, nodes[1], value)
    IN IF ~IsOk(array) THEN array
       ELSE IF is_array(array.value) /\ nodes[2].number >= 0
                /\ nodes[2].number < Len(array.value.a)
       THEN Ok(array.value.a[nodes[2].number + 1])
       ELSE Ok(Null)

visit_index_expression(ip, nodes, value) ==
    LET array == VisitOrCurrent(ip, nodes[1], value)
        index == IF nodes[2].number >= 0 THEN nodes[2].number
                 ELSE nodes[2].number + Len(array.value.a)
    IN IF ~IsOk(array) THEN array
       ELSE IF is_array(array.value)
       THEN (IF index >= 0 /\ index < Len(array.value.a)
             THEN Ok(array.value.a[index + 1]) ELSE Ok(Null))
       ELSE Ok(Null)

\* f64's order on the numbers of the model.
NumberLess(a, b) == a.n < b.n \/ (a.n = b.n /\ a.e < b.e)

\* A type name that does not tell the types apart.
get_data_type_any(v) == "Any"

get_data_type(v) ==
    CASE is_array(v) -> "Array"
      [] is_bool(v) -> "Boolean"
      [] is_null(v) -> "Null"
      [] is_number(v) -> "Number"
      [] is_object(v) -> "Object"
      [] is_str(v) -> "String"
      [] is_expression(v) -> "ExpRef"

(***************************************************************************)
(* f64 arithmetic on the numbers of the model.  The operands of an         *)
(* arithmetic expression are whole numbers of a magnitude up to F64Max;    *)
(* a result beyond it is infinite.  A quotient that is not whole is kept   *)
(* as its floor and one positive fractional part.                          *)
(***************************************************************************)
Finite(n, e) == [c |-> "finite", n |-> n, e |-> e]

\* "inf", "-inf" or "nan".
NonFinite(c) == [c |-> c, n |-> 0, e |-> 0]

F64Round(n) ==
    IF n > F64Max THEN NonFinite("inf")
    ELSE IF n < -F64Max THEN NonFinite("-inf")
    ELSE Finite(n, 0)

\* The quotient rounded towards zero, rhs # 0.
TruncDiv(lhs, rhs) ==
    IF (lhs >= 0) = (rhs > 0) THEN Abs(lhs) \div Abs(rhs) ELSE -(Abs(lhs) \div Abs(rhs))

\* lhs / rhs
F64Divide(lhs, rhs) ==
    IF rhs = 0
    THEN (IF lhs = 0 THEN NonFinite("nan")
          ELSE IF lhs > 0 THEN NonFinite("inf") ELSE NonFinite("-inf"))
    ELSE IF Abs(lhs) % Abs(rhs) = 0 THEN Finite(TruncDiv(lhs, rhs), 0)
    ELSE IF (lhs >= 0) = (rhs > 0) THEN Finite(TruncDiv(lhs, rhs), 1)
    ELSE Finite(TruncDiv(lhs, rhs) - 1, 1)

\* lhs % rhs: the remainder has the sign of lhs.
F64Rem(lhs, rhs) ==
    IF rhs = 0 THEN NonFinite("nan") ELSE Finite(lhs - rhs * TruncDiv(lhs, rhs), 0)

\* x as i64: NaN is 0, the rest is rounded towards zero and saturates.
AsI64(x) ==
    CASE x.c = "nan" -> 0
      [] x.c = "inf" -> I64Max
      [] x.c = "-inf" -> -I64Max - 1
      [] OTHER ->
            LET truncated == IF x.e > 0 /\ x.n < 0 THEN x.n + 1
                             ELSE IF x.e < 0 /\ x.n > 0 THEN x.n - 1
                             ELSE x.n
            IN IF truncated > I64Max THEN I64Max
               ELSE IF truncated < -I64Max - 1 THEN -I64Max - 1
               ELSE truncated

\* Value::from_f64, Number::from: an error for NaN and the infinities.
from_f64(x) ==
    IF x.c = "finite" THEN Ok(NumberEps(x.n, x.e)) ELSE Err("NotANumber", "not a finite number")

visit_arithmetic_unary(ip, nodes, value) ==
    LET right == Visit(ip, nodes[3], value)
        result == CASE nodes[2].k = "Minus" -> from_f64(Finite(-right.value.n, -right.value.e))
                    [] nodes[2].k = "Plus" -> right
                    [] OTHER -> Panic("unreachable")
    IN IF ~IsOk(right) THEN right
       ELSE IF ~is_number(right.value)
       THEN ErrAt("Syntax", "right hand side: " \o get_data_type(right.value), PositionOf(nodes[2]))
       ELSE IF result.kind = "NotANumber"
       THEN ErrAt("NotANumber", "invalid number", PositionOf(nodes[2]))
       ELSE result

visit_arithmetic_binary(ip, nodes, value) ==
    LET left == Visit(ip, nodes[1], value)
        right == Visit(ip, nodes[3], value)
        lhs == left.value.n
        rhs == right.value.n
        result == CASE nodes[2].k = "Divide" -> from_f64(F64Divide(lhs, rhs))
                    [] nodes[2].k = "Minus" -> from_f64(F64Round(lhs - rhs))
                    [] nodes[2].k = "Multiply" -> from_f64(F64Round(lhs * rhs))
                    [] nodes[2].k = "Plus" -> from_f64(F64Round(lhs + rhs))
                    [] nodes[2].k = "Modulo" -> from_f64(Finite(AsI64(F64Rem(lhs, rhs)), 0))
                    [] nodes[2].k = "Div" -> from_f64(Finite(AsI64(F64Divide(lhs, rhs)), 0))
                    [] OTHER -> Panic("unreachable")
    IN IF Len(nodes) # 3 THEN Panic("assertion failed")
       ELSE IF ~IsOk(left) THEN left
       ELSE IF ~IsOk(right) THEN right
       ELSE IF ~is_number(left.value)
       THEN ErrAt("Syntax", "left hand side: " \o get_data_type(left.value), PositionOf(nodes[2]))
       ELSE IF ~is_number(right.value)
       THEN ErrAt("Syntax", "right hand side: " \o get_data_type(right.value), PositionOf(nodes[2]))
       ELSE IF result.kind = "NotANumber"
       THEN ErrAt("NotANumber", "invalid number", PositionOf(nodes[2]))
       ELSE result

visit_arithmetic_expression(ip, nodes, value) ==
    IF nodes[1].k = "None" THEN visit_arithmetic_unary(ip, nodes, value)
    ELSE visit_arithmetic_binary(ip, nodes, value)

visit_comparator_expression(ip, nodes, value) ==
    LET left == Visit(ip, nodes[1], value)
        right == Visit(ip, nodes[3], value)
        requires_numbers == nodes[2].k \notin {"Equal", "NotEqual"}
        lhs == left.value
        rhs == right.value
    IN IF Len(nodes) # 3 THEN Panic("assertion failed")
       ELSE IF ~IsOk(left) THEN left
       ELSE IF ~IsOk(right) THEN right
       ELSE IF ~is_number(lhs) /\ requires_numbers THEN Ok(Null)
       ELSE IF ~is_number(rhs) /\ requires_numbers THEN Ok(Null)
       ELSE CASE nodes[2].k = "GreaterThan" -> Ok(Boolean(NumberLess(rhs, lhs)))
              [] nodes[2].k = "GreaterThanOrEqual" -> Ok(Boolean(~NumberLess(lhs, rhs)))
              [] nodes[2].k = "LessThanOrEqual" -> Ok(Boolean(~NumberLess(rhs, lhs)))
              [] nodes[2].k = "LessThan" -> Ok(Boolean(NumberLess(lhs, rhs)))
              [] nodes[2].k = "Equal" -> Ok(Boolean(ValueEq(lhs, rhs)))
              [] nodes[2].k = "NotEqual" -> Ok(Boolean(~ValueEq(lhs, rhs)))
              [] OTHER -> Panic("unreachable")

visit_logical_expression(ip, nodes, value) ==
    LET negated == Visit(ip, nodes[2], value)
        left == Visit(ip, nodes[1], value)
        right == Visit(ip, nodes[3], value)
    IN IF Len(nodes) = 2
       THEN (IF IsOk(negated) THEN Ok(Boolean(~is_truthy(negated.value))) ELSE negated)
       ELSE IF ~IsOk(left) THEN left
       ELSE IF ~IsOk(right) THEN right
       ELSE CASE nodes[2].k = "And" -> IF is_truthy(left.value) THEN right ELSE left
              [] nodes[2].k = "Or" -> IF is_truthy(left.value) THEN left ELSE right
              [] OTHER -> Panic("unreachable")

Visit(ip, ast, value) ==
    CASE ast.k = "ArithmeticExpression" -> visit_arithmetic_expression(ip, ast.nodes, value)
      [] ast.k = "ComparatorExpression" -> visit_comparator_expression(ip, ast.nodes, value)
      [] ast.k = "CurrentNode" -> Ok(value)
      [] ast.k = "Expression" -> visit_expref(ast.nodes)
      [] ast.k = "FunctionExpression" -> visit_function_expression(ip, ast.nodes, value)
      [] ast.k = "HashWildcardProjection" -> visit_hash_wildcard_projection(ip, ast.nodes, value)
      [] ast.k = "IndexExpression" -> visit_index_expression(ip, ast.nodes, value)
      [] ast.k = "LetExpression" -> visit_let_expression(ip, ast.nodes, value)
      [] ast.k = "LogicalExpression" -> visit_logical_expression(ip, ast.nodes, value)
      [] ast.k = "MultiSelectList" -> visit_multi_select_list(ip, ast.nodes, value)
      [] ast.k = "PipeExpression" -> visit_pipe_expression(ip, ast.nodes, value)
      [] ast.k = "Projection" -> visit_projection(ip, ast.nodes, value)
      [] ast.k = "RawString" -> Ok(String(ast.s))
      [] ast.k = "RootNode" -> Ok(ip.root)
      [] ast.k = "SubExpression" -> visit_sub_expression(ip, ast.nodes, value)
      [] ast.k = "UnquotedIdentifier" -> visit_identifier(ast, value)
      [] ast.k = "VariableRef" -> visit_variable_ref(ip, ast)
      [] OTHER -> Panic("unreachable")

evaluate(ip, ast) == Visit(ip, ast, ip.root)


(***************************************************************************)
(* create_by_function (interpreter.rs) and the function bodies             *)
(* (functions/builtin, and the functions the tests of runtime.rs           *)
(* declare).                                                               *)
(***************************************************************************)
\* The check the closure of create_by_function makes on what the
\* expression evaluated to.
ByFunctionCheck(result, data_types) ==
    IF ~IsOk(result) THEN result
    ELSE IF matches_data_type(result.value, data_types) THEN result
    ELSE Err("InvalidType", "expression")

\* The closure create_by_function returns, applied to a value.
ByFunctionCall(ip, ast, data_types, value) ==
    ByFunctionCheck(Visit(ip, ast, value), data_types)

Reverse(s) == [i \in 1..Len(s) |-> s[Len(s) + 1 - i]]

\* array.iter().map(closure).collect(): the keys of the elements from the
\* i-th on, or the first error.
RECURSIVE MinByNumbers(_, _, _, _, _)
MinByCollect(ip, ast, array, i, numbers, key) ==
    IF IsOk(key)
    THEN MinByNumbers(ip, ast, array, i + 1, Append(numbers, key.value))
    ELSE [res |-> key, numbers |-> numbers]

MinByNumbers(ip, ast, array, i, numbers) ==
    IF i > Len(array) THEN [res |-> Ok(Null), numbers |-> numbers]
    ELSE MinByCollect(ip, ast, array, i, numbers,
                      ByFunctionCall(ip, ast, <<"Number">>, array[i]))

\* The first element, whatever the keys.
MinByKeyFirst(array, keys) ==
    IF ~IsOk(keys.res) THEN keys.res
    ELSE IF array = <<>> THEN Ok(Null)
    ELSE Ok(array[1])

\* zip(numbers).min_by_key(): the first element with the least key.
MinByKey(array, keys) ==
    IF ~IsOk(keys.res) THEN keys.res
    ELSE IF array = <<>> THEN Ok(Null)
    ELSE Ok(array[CHOOSE i \in 1..Len(array) :
                /\ \A j \in 1..Len(array) : ~NumberLess(keys.numbers[j], keys.numbers[i])
                /\ \A j \in 1..(i - 1) : NumberLess(keys.numbers[i], keys.numbers[j])])

min_by(args, context) ==
    IF Len(args) < 2 THEN Panic("index out of bounds")
    ELSE IF ~is_array(args[1]) \/ ~is_expression(args[2]) THEN Panic("unwrap on None")
    ELSE MinByKey(args[1].a, MinByNumbers(context, args[2].ast, args[1].a, 1, <<>>))

abs(args) ==
    IF Len(args) < 1 THEN Panic("index out of bounds")
    ELSE IF ~is_number(args[1]) THEN Panic("unwrap on None")
    ELSE IF NumberLess(args[1], Number(0))
    THEN Ok(NumberEps(-args[1].n, -args[1].e))
    ELSE Ok(args[1])

length(args) ==
    IF Len(args) < 1 THEN Panic("index out of bounds")
    ELSE CASE is_array(args[1]) -> Ok(Number(Len(args[1].a)))
           [] is_object(args[1]) -> Ok(Number(Len(args[1].o)))
           [] is_str(args[1]) -> Ok(Number(Len(args[1].s)))
           [] OTHER -> Panic("unreachable")

reverse(args) ==
    IF Len(args) < 1 THEN Panic("index out of bounds")
    ELSE CASE is_array(args[1]) -> Ok(Array(Reverse(args[1].a)))
           [] is_str(args[1]) -> Ok(String(Reverse(args[1].s)))
           [] OTHER -> Panic("unreachable")

\* number.floor() == number
is_integer(number) == number.e = 0

\* number.floor() as usize of a whole number: a negative one is 0.
FloorAsUsize(number) == IF number.n < 0 THEN 0 ELSE number.n

\* subject.windows(sub.len()).position(|window| window == sub)
WindowsPosition(subject, sub) ==
    LET offsets == {offset \in 0..(Len(subject) - Len(sub)) :
                        SubSeq(subject, offset + 1, offset + Len(sub)) = sub}
    IN IF offsets = {} THEN [some |-> FALSE, v |-> 0]
       ELSE [some |-> TRUE, v |-> CHOOSE offset \in offsets : \A other \in offsets : offset <= other]

\* &subject[start..end] and the search in it.
FindFirstIn(subject, sub, start, end) ==
    IF start > end THEN Panic("slice index starts after its end")
    ELSE LET offset == WindowsPosition(SubSeq(subject, start + 1, end), sub)
         IN IF offset.some THEN Ok(Number(offset.v + start)) ELSE Ok(Null)

\* max(start, zero) and min(end, infinite), each floored as usize.
FindFirstClamped(subject, sub, start, end) ==
    FindFirstIn(subject, sub,
                FloorAsUsize(IF NumberLess(start, Number(0)) THEN Number(0) ELSE start),
                FloorAsUsize(IF NumberLess(Number(Len(subject)), end)
                             THEN Number(Len(subject)) ELSE end))

find_first(args) ==
    IF Len(args) < 2 THEN Panic("index out of bounds")
    ELSE IF ~is_str(args[1]) \/ ~is_str(args[2]) THEN Panic("unwrap on None")
    ELSE IF Len(args[1].s) = 0 \/ Len(args[2].s) = 0 THEN Ok(Null)
    ELSE IF \E i \in 3..Min2(Len(args), 4) : ~is_number(args[i]) THEN Panic("unwrap on None")
    ELSE LET start == IF Len(args) > 2 THEN args[3] ELSE Number(0)
             end == IF Len(args) > 3 THEN args[4] ELSE Number(Len(args[1].s))
         IN IF ~is_integer(start) THEN Err("InvalidValue", "start")
            ELSE IF ~is_integer(end) THEN Err("InvalidValue", "end")
            ELSE FindFirstClamped(args[1].s, args[2].s, start, end)

\* subject.windows(search.len()).any(|window| window == &search); windows
\* panics on a size of zero.
WindowsAny(subject, search) ==
    IF Len(search) = 0 THEN Panic("window size must be non-zero")
    ELSE Ok(Boolean(\E offset \in 0..(Len(subject) - Len(search)) :
                        SubSeq(subject, offset + 1, offset + Len(search)) = search))

contains(args) ==
    IF Len(args) < 2 THEN Panic("index out of bounds")
    ELSE IF is_array(args[1])
    THEN Ok(Boolean(\E i \in 1..Len(args[1].a) : ValueEq(args[1].a[i], args[2])))
    ELSE IF is_str(args[1])
    THEN IF is_str(args[2]) THEN WindowsAny(args[1].s, args[2].s) ELSE Ok(Boolean(FALSE))
    ELSE Panic("unreachable")

\* A body written as those of the functions add and sum of the tests:
\* "type checking has been performed by the runtime, safe to unwrap".  It
\* unwraps every argument as the type its parameter declares.
unwrap_body(func, args) ==
    LET params == func.signature
        param_of(i) == params[Min2(i, Len(params))]
    IN IF \E i \in 1..Len(args) : params = <<>> \/ ~matches_data_type(args[i], param_of(i).types)
       THEN Panic("unwrap on None")
       ELSE Ok(Boolean(TRUE))

Execute(func, args, context) ==
    LET result == CASE func.body = "abs" -> abs(args)
                    [] func.body = "contains" -> contains(args)
                    [] func.body = "find_first" -> find_first(args)
                    [] func.body = "length" -> length(args)
                    [] func.body = "min_by" -> min_by(args, context)
                    [] func.body = "reverse" -> reverse(args)
                    [] OTHER -> unwrap_body(func, args)
    IN [result EXCEPT !.executed = TRUE]

\* The two checks of Runtime::call, in the order it makes them.
CallChecksTypeFirst(func, args, overflow_checks) ==
    LET typed == ensure_type(func, args, overflow_checks)
    IN IF ~IsOk(typed) THEN typed ELSE ensure_arity(func, args)

CallChecks(func, args, overflow_checks) ==
    LET arity == ensure_arity(func, args)
    IN IF ~IsOk(arity) THEN arity ELSE ensure_type(func, args, overflow_checks)

RuntimeCall(runtime, shared_registry, fname, args, context) ==
    LET func == RuntimeGet(runtime, shared_registry, fname)
    IN IF func.some
       THEN LET checked == CallChecks(func.v, args, context.overflow_checks)
            IN IF ~IsOk(checked) THEN checked ELSE Execute(func.v, args, context)
       ELSE Err("UnknownFunction", fname)


(***************************************************************************)
(* Calls of declared functions.  A declaration (the parameters written in  *)
(* a function! macro call) is constructed, registered in a runtime of its  *)
(* own and called with an argument vector.                                 *)
(***************************************************************************)
\* Every parameter kind with one of two types, up to MaxParams of them.
CallSignatures ==
    SeqsUpTo({Parameter(kind, types) :
                kind \in {"r", "o", "v"}, types \in {<<"Number">>, <<"String">>}}, MaxParams)

CallArguments == SeqsUpTo({Number(1), String(<<>>)}, MaxArgs)

\* find_first as find_first.rs declares it.
FindFirstDeclaration ==
    [name |-> "find_first",
     signature |-> <<Required(<<"String">>), Required(<<"String">>),
                     Optional(<<"Number">>), Optional(<<"Number">>)>>,
     body |-> "find_first"]

\* Whole numbers on both sides of every index of a subject, and one that
\* is not whole.
FindNumbers == {Number(n) : n \in (-(MaxLen + 2))..(MaxLen + 2)} \cup {NumberEps(0, 1)}

\* subject and sub, then no, one or two of start and end.
FindArguments ==
    {<<String(subject), String(sub)>> \o rest :
        subject \in SeqsUpTo({"a", "b"}, MaxLen + 1), sub \in SeqsUpTo({"a", "b"}, MaxLen),
        rest \in SeqsUpTo(FindNumbers, 2)}

\* contains as contains.rs declares it.
ContainsDeclaration ==
    [name |-> "contains",
     signature |-> <<Required(<<"Array", "String">>), Required(<<"Any">>)>>,
     body |-> "contains"]

\* A string or an array to search, and a string, a number or null to
\* search for.
ContainsArguments ==
    {<<subject, search>> :
        subject \in {String(s) : s \in SeqsUpTo({"a", "b"}, MaxLen)}
                        \cup {Array(a) : a \in SeqsUpTo({Number(1), String(<<"a">>)}, 2)},
        search \in {String(s) : s \in SeqsUpTo({"a", "b"}, 2)} \cup {Number(1), Null}}

NoFunction == [name |-> "", signature |-> <<>>, body |-> "none"]

CallInit ==
    /\ call \in {[stage |-> "declared",
                  decl |-> input[1],
                  func |-> NoFunction,
                  args |-> input[2],
                  overflow_checks |-> overflow_checks,
                  outcome |-> Ok(Null)] :
                    input \in ({[name |-> "f", signature |-> signature, body |-> "unwrap"] :
                                    signature \in CallSignatures} \X CallArguments)
                               \cup ({FindFirstDeclaration} \X FindArguments)
                               \cup ({ContainsDeclaration} \X ContainsArguments),
                    overflow_checks \in BOOLEAN}
    /\ REGISTRY = Idle /\ runtimes = Idle /\ last = Idle /\ eval = Idle /\ eq = Idle
    /\ threads = Idle /\ parse = Idle /\ errors = Idle

\* Function::new() of the declared function: it panics on a signature the
\* pattern rejects.
CallConstruct ==
    /\ call.stage = "declared"
    /\ LET made == FunctionNew(call.decl)
       IN call' = IF made.panic
                  THEN [call EXCEPT !.stage = "rejected", !.outcome = Panic("invalid signature")]
                  ELSE [call EXCEPT !.stage = "constructed", !.func = made.func]
    /\ UNCHANGED <<REGISTRY, runtimes, last, eval, eq, threads, parse, errors>>

\* register() on a created runtime, then Runtime::call.
CallInvoke ==
    /\ call.stage = "constructed"
    /\ LET runtime == RuntimeRegister(create_runtime, create_registry, call.func).runtime
           context == Interpreter(runtime, create_registry, Null, call.overflow_checks)
       IN call' = [call EXCEPT !.stage = "called",
                               !.outcome = RuntimeCall(runtime, create_registry, call.func.name,
                                                       call.args, context)]
    /\ UNCHANGED <<REGISTRY, runtimes, last, eval, eq, threads, parse, errors>>

CallNext == CallConstruct \/ CallInvoke

SpecCall == CallInit /\ [][CallNext]_vars

\* What a call's inputs say, counted from the declaration.
CountKind(signature, kind) == Cardinality({i \in 1..Len(signature) : signature[i].kind = kind})

\* The parameter the i-th argument (1-based) is held against: the one at
\* its index, the last one for the additional arguments.
ParameterOf(signature, i) == signature[Min2(i, Len(signature))]

ArgumentAccepted(signature, args, i) ==
    signature # <<>> /\ matches_data_type(args[i], ParameterOf(signature, i).types)

CountOutside(signature, args) ==
    \/ Len(args) < get_min_args_count(signature)
    \/ get_max_args_count(signature) # -1 /\ Len(args) > get_max_args_count(signature)

\* C1: a call whose argument count lies outside the function's allowed
\* count returns InvalidArity, whatever the types of the arguments, and
\* InvalidType is returned only for an acceptable argument count.
C1_ArityBeforeType ==
    call.stage = "called" =>
        /\ CountOutside(call.func.signature, call.args) => call.outcome.kind = "InvalidArity"
        /\ call.outcome.kind = "InvalidType" => ~CountOutside(call.func.signature, call.args)

\* A call with both violations that returned InvalidArity.
C1_Witness ==
    /\ call.stage = "called"
    /\ CountOutside(call.func.signature, call.args)
    /\ \E i \in 1..Min2(Len(call.args), Len(call.func.signature)) :
          ~matches_data_type(call.args[i], call.func.signature[i].types)
    /\ call.outcome.kind = "InvalidArity"

\* C2: the body of a function is executed only after every supplied
\* argument passed the type check of its parameter (the last parameter for
\* the additional arguments of a variadic function); a call with an
\* argument that fails returns InvalidType and does not execute the body.
C2_BodyAfterTypeCheck ==
    call.stage = "called" /\ ~CountOutside(call.func.signature, call.args) =>
        /\ call.outcome.executed =>
              \A i \in 1..Len(call.args) : ArgumentAccepted(call.func.signature, call.args, i)
        /\ (\E i \in 1..Len(call.args) : ~ArgumentAccepted(call.func.signature, call.args, i)) =>
              call.outcome.kind = "InvalidType" /\ ~call.outcome.executed

\* C3: with r Required, o Optional and v Variadic parameters, n arguments
\* pass the arity check exactly when r + v <= n and (v = 1 or n <= r + o);
\* fewer give InvalidArity (too few), more give InvalidArity (too many).
C3_ArityFormula ==
    call.stage = "called" =>
        LET r == CountKind(call.decl.signature, "r")
            o == CountKind(call.decl.signature, "o")
            v == CountKind(call.decl.signature, "v")
            n == Len(call.args)
            arity == call.outcome.kind = "InvalidArity"
        IN /\ v \in {0, 1}
           /\ ~arity <=> (r + v <= n /\ (v = 1 \/ n <= r + o))
           /\ n < r + v => arity /\ call.outcome.detail = "too_few"
           /\ (v = 0 /\ n > r + o) => arity /\ call.outcome.detail = "too_many"

\* A call with three arguments of a function with one Required and one
\* Optional parameter: too many.
C3_Witness ==
    /\ call.stage = "called"
    /\ CountKind(call.decl.signature, "r") = 1
    /\ CountKind(call.decl.signature, "o") = 1
    /\ Len(call.args) = 3
    /\ call.outcome.kind = "InvalidArity" /\ call.outcome.detail = "too_many"


(***************************************************************************)
(* Evaluations.  Runtime::search_ast on the shared runtime: an AST and a   *)
(* root value are given, the interpreter evaluates the one against the     *)
(* other.                                                                  *)
(***************************************************************************)
search_ast(runtime, shared_registry, ast, root, overflow_checks) ==
    evaluate(Interpreter(runtime, shared_registry, root, overflow_checks), ast)

EvalElements ==
    {Null, Number(1),
     Object(<<<<"a", Number(1)>>>>), Object(<<<<"a", Null>>, <<"b", Number(1)>>>>),
     Array(<<Null>>), Array(<<Number(1)>>)}

EvalRoots ==
    LET arrays == {Array(a) : a \in SeqsUpTo(EvalElements, MaxLen)}
    IN EvalElements \cup {String(<<"x", "y">>)} \cup arrays
          \cup {Object(<<<<"a", v>>>>) : v \in arrays}

ProjectionKinds ==
    {ListWildcard, Flatten, Filter(UnquotedIdentifier("a")), Filter(CurrentNode),
     Slice(NoIndex, NoIndex, NoIndex), Slice(SomeIndex(1), NoIndex, NoIndex),
     Slice(NoIndex, SomeIndex(1), NoIndex), Slice(SomeIndex(-1), NoIndex, NoIndex),
     Slice(NoIndex, NoIndex, SomeIndex(2)), Slice(NoIndex, NoIndex, SomeIndex(-1)),
     Slice(NoIndex, NoIndex, SomeIndex(0))}

ProjectionTails ==
    {NoneNode, UnquotedIdentifier("a"), FunctionExpression("abs", <<CurrentNode>>),
     MultiSelectList(<<CurrentNode>>)}

ProjectionAsts ==
    LET lefts == {NoneNode, UnquotedIdentifier("a")}
    IN {Projection(kind, left, right) :
            kind \in ProjectionKinds, left \in lefts, right \in ProjectionTails}
       \cup {HashWildcardProjection(left, right) : left \in lefts, right \in ProjectionTails}

\* let $x = 'o' in [let $<inner> = <bound> in $<inside>, $<after>]
LetNest(inner, bound, inside, after) ==
    LetExpression(<<VariableRef("x"), RawString(<<"o">>)>>,
        MultiSelectList(<<LetExpression(<<VariableRef(inner), bound>>, VariableRef(inside)),
                          VariableRef(after)>>))

LetNames == {"x", "y"}

LetBound == {RawString(<<"i">>), VariableRef("x")}

LetAsts ==
    {LetNest(inner, bound, inside, after) :
        inner \in LetNames, bound \in LetBound, inside \in LetNames, after \in LetNames}

\* let $x = <first>, $y = <second> in [$x, $y], alone or as the body of
\* let $<outer> = 'o'.
LetExpressions == {RawString(<<"i">>), UnquotedIdentifier("a"), VariableRef("x"), VariableRef("y")}

LetPair(first, second) ==
    LetExpression(<<VariableRef("x"), first, VariableRef("y"), second>>,
                  MultiSelectList(<<VariableRef("x"), VariableRef("y")>>))

LetPairAsts ==
    {LetPair(first, second) : first \in LetExpressions, second \in LetExpressions}
        \cup {LetExpression(<<VariableRef(outer), RawString(<<"o">>)>>, LetPair(first, second)) :
                outer \in LetNames, first \in LetExpressions, second \in LetExpressions}

LetPairInputs ==
    LetPairAsts \X {Null, Object(<<<<"a", Number(1)>>>>), Object(<<<<"a", String(<<"x">>)>>>>)}

\* The values an operand of an expression evaluates to: every kind, the
\* falsy and a truthy value of each, whole numbers up to F64Max.
ExprValues ==
    {Null, Boolean(TRUE), Boolean(FALSE), Number(0), Number(1), Number(-1), Number(2),
     Number(F64Max), String(<<>>), String(<<"x">>), Array(<<>>), Array(<<Number(1), Number(2)>>),
     Object(<<>>), Expression(CurrentNode)}

\* A value of every kind, and the objects {a: x, b: y}.
ExprRoots ==
    ExprValues \cup {Object(<<<<"a", x>>, <<"b", y>>>>) : x \in ExprValues, y \in ExprValues}

\* The right-hand sides of a sub-expression the grammar allows, one of
\* which fails on every value.
ChainRights ==
    {UnquotedIdentifier("b"), MultiSelectList(<<CurrentNode>>),
     FunctionExpression("unknown", <<CurrentNode>>)}

ChainAsts ==
    {SubExpression(left, right) : left \in {CurrentNode, UnquotedIdentifier("a")}, right \in ChainRights}
        \cup {PipeExpression(left, right) :
                left \in {CurrentNode, UnquotedIdentifier("a")}, right \in ChainRights}

IndexAsts ==
    {IndexExpression(left, index) :
        left \in {NoneNode, UnquotedIdentifier("a")}, index \in {0, 1, 2, -1, -2, -3}}

\* a <operator> b, the operator at (1, 3).
Operation(operator) ==
    <<UnquotedIdentifier("a"), OperatorNode(operator, Position(1, 3)), UnquotedIdentifier("b")>>

OrderedOperators == {"LessThan", "LessThanOrEqual", "GreaterThan", "GreaterThanOrEqual"}

ComparatorAsts ==
    {ComparatorExpression(Operation(operator)) :
        operator \in OrderedOperators \cup {"Equal", "NotEqual"}}

ArithmeticOperators == {"Plus", "Minus", "Multiply", "Divide", "Modulo", "Div"}

\* a <operator> b, +a and -a.
ArithmeticAsts ==
    {ArithmeticExpression(Operation(operator)) : operator \in ArithmeticOperators}
        \cup {ArithmeticExpression(<<NoneNode, OperatorNode(operator, Position(1, 1)),
                                     UnquotedIdentifier("a")>>) : operator \in {"Plus", "Minus"}}

\* Right operands of && and ||: one that evaluates, two that fail.
LogicalRights ==
    {UnquotedIdentifier("b"), VariableRef("y"), FunctionExpression("unknown", <<CurrentNode>>)}

LogicalAsts ==
    {LogicalExpression(<<UnquotedIdentifier("a"), OperatorNode(operator, Position(1, 3)), right>>) :
        operator \in {"And", "Or"}, right \in LogicalRights}
        \cup {LogicalExpression(<<OperatorNode("Not", Position(1, 1)), UnquotedIdentifier("a")>>)}

\* [::0] and a[::0], with and without a tail, the slice at (1, 2).
SliceStepZeroAsts ==
    {Projection(AstMake(Slice(NoIndex, NoIndex, SomeIndex(0)), Position(1, 2)), left, right) :
        left \in {NoneNode, UnquotedIdentifier("a")}, right \in {NoneNode, UnquotedIdentifier("b")}}

ExprAsts ==
    ChainAsts \cup {UnquotedIdentifier("a"), FunctionExpression("abs", <<CurrentNode, CurrentNode>>)}
        \cup IndexAsts \cup ComparatorAsts \cup ArithmeticAsts \cup LogicalAsts
        \cup SliceStepZeroAsts

\* min_by(@, &a)
MinByAst == FunctionExpression("min_by", <<CurrentNode, ExpressionNode(UnquotedIdentifier("a"))>>)

\* Arrays of elements with the keys 1, 2, 1 again, and two with no number
\* for a key.
MinByRoots ==
    {Array(a) : a \in SeqsUpTo({Object(<<<<"a", Number(1)>>>>), Object(<<<<"a", Number(2)>>>>),
                                Object(<<<<"a", Number(1)>>, <<"b", Null>>>>),
                                Object(<<<<"a", String(<<"x">>)>>>>), Number(1)}, MaxLen + 1)}

\* sum of the tests of runtime.rs, as a program declares it.
SumDeclaration == [name |-> "sum", signature |-> <<Variadic(<<"Number">>)>>, body |-> "unwrap"]

\* A created runtime in which the program registered sum.
SumRuntime == RuntimeRegister(create_runtime, create_registry, FunctionNew(SumDeclaration).func).runtime

\* Calls of a built-in function, of sum and of an unknown function with up
\* to two arguments, each @, a literal, or an expression that fails.
CallAsts ==
    {FunctionExpression(name, args) :
        name \in {"abs", "length", "sum", "unknown"},
        args \in SeqsUpTo({CurrentNode, RawString(<<"a">>), VariableRef("y"),
                           FunctionExpression("unknown", <<CurrentNode>>)}, 2)}

CallInputs == CallAsts \X {Number(-1), String(<<"a">>)}

\* [start:stop:step] with each bound omitted or on either side of every
\* index, and steps of both signs.
SliceAsts ==
    LET bounds == {NoIndex} \cup {SomeIndex(n) : n \in (-(MaxLen + 2))..(MaxLen + 2)}
    IN {Projection(Slice(start, stop, step), NoneNode, NoneNode) :
            start \in bounds, stop \in bounds,
            step \in {NoIndex, SomeIndex(1), SomeIndex(2), SomeIndex(-1), SomeIndex(-2)}}

\* The arrays [1, .., n] and the strings of the first n letters, from
\* the empty ones on.
SliceRoots ==
    {Array([i \in 1..n |-> Number(i)]) : n \in 0..(MaxLen + 1)}
        \cup {String(SubSeq(<<"a", "b", "c", "d", "e", "f">>, 1, n)) : n \in 0..(MaxLen + 1)}

EvalInputs ==
    ((ProjectionAsts \cup LetAsts) \X EvalRoots) \cup (ExprAsts \X ExprRoots)
        \cup ({MinByAst} \X MinByRoots)

EvalInit ==
    /\ eval \in {[stage |-> "parsed", ast |-> input[1], root |-> input[2],
                  runtime |-> IF input \in CallInputs THEN SumRuntime ELSE get_shared_runtime,
                  overflow_checks |-> overflow_checks, result |-> Ok(Null)] :
                    input \in EvalInputs \cup CallInputs \cup (SliceAsts \X SliceRoots)
                                \cup LetPairInputs,
                    overflow_checks \in BOOLEAN}
    /\ REGISTRY = Idle /\ runtimes = Idle /\ last = Idle /\ call = Idle /\ eq = Idle
    /\ threads = Idle /\ parse = Idle /\ errors = Idle

EvalSearchAst ==
    /\ eval.stage = "parsed"
    /\ eval' = [eval EXCEPT !.stage = "evaluated",
                            !.result = search_ast(eval.runtime, create_registry, eval.ast,
                                                  eval.root, eval.overflow_checks)]
    /\ UNCHANGED <<REGISTRY, runtimes, last, call, eq, threads, parse, errors>>

EvalNext == EvalSearchAst

SpecEval == EvalInit /\ [][EvalNext]_vars

IsProjectionAst(ast) == ast.k \in {"Projection", "HashWildcardProjection"}

\* C4: an array that is the result of a projection (list wildcard,
\* filter, flatten, slice, hash wildcard; with a tail or with none)
\* contains no Null element.
C4_ProjectionNoNull ==
    (eval.stage = "evaluated" /\ IsProjectionAst(eval.ast)
        /\ IsOk(eval.result) /\ is_array(eval.result.value)) =>
        \A i \in 1..Len(eval.result.value.a) : ~is_null(eval.result.value.a[i])

\* [null, 1] | [*]: a projection with no tail over an array that holds Null.
C4_NoTailInput ==
    /\ eval.stage = "evaluated"
    /\ eval.ast = Projection(ListWildcard, NoneNode, NoneNode)
    /\ eval.root = Array(<<Null, Number(1)>>)

\* C5: in nested let expressions a reference in the inner body resolves
\* to the innermost binding of its name; after the inner let expression,
\* a reference in the rest of the outer body resolves to the outer binding
\* again, and a name only the inner let binds is undefined there.
C5_LetShadowing ==
    \A inner \in LetNames, bound \in LetBound, inside \in LetNames, after \in LetNames :
        (eval.stage = "evaluated" /\ eval.ast = LetNest(inner, bound, inside, after)) =>
            LET outer_value == String(<<"o">>)
                inner_value == IF bound = VariableRef("x") THEN outer_value ELSE String(<<"i">>)
            IN IF inside # inner /\ inside # "x"
               THEN eval.result = Err("UndefinedVariable", inside)
               ELSE IF after # "x"
               THEN eval.result = Err("UndefinedVariable", after)
               ELSE eval.result =
                        Ok(Array(<<IF inside = inner THEN inner_value ELSE outer_value,
                                   outer_value>>))

\* let $x = 'o' in [let $x = 'i' in $x, $x] evaluated to ["i", "o"].
C5_Witness ==
    /\ eval.stage = "evaluated"
    /\ eval.ast = LetNest("x", RawString(<<"i">>), "x", "x")
    /\ eval.result = Ok(Array(<<String(<<"i">>), String(<<"o">>)>>))

\* The tail evaluated by hand against each element of an intermediate
\* array, in order, Null results dropped, the first error ending it.
RECURSIVE C7_TailOverArray(_, _, _)
C7_TailOverArray(ip, tail, array) ==
    IF array = <<>> THEN Ok(Array(<<>>))
    ELSE LET first == Visit(ip, tail, Head(array))
         IN IF ~IsOk(first) THEN first
            ELSE LET rest == C7_TailOverArray(ip, tail, Tail(array))
                 IN IF ~IsOk(rest) THEN rest
                    ELSE IF is_null(first.value) THEN rest
                    ELSE Ok(Array(<<first.value>> \o rest.value.a))

C7_ManualTail(ip, tail, intermediate) ==
    IF ~IsOk(intermediate) THEN intermediate
    ELSE IF is_array(intermediate.value) THEN C7_TailOverArray(ip, tail, intermediate.value.a)
    ELSE IF is_str(intermediate.value) THEN Visit(ip, tail, intermediate.value)
    ELSE Ok(Null)

C7_WithoutTail(ast) ==
    IF ast.k = "Projection" THEN Projection(ast.nodes[1], ast.nodes[2], NoneNode)
    ELSE HashWildcardProjection(ast.nodes[1], NoneNode)

\* C7: a projection with a tail gives what the projection with no tail
\* gives once the tail is evaluated against each element of the
\* intermediate array in order with Null results dropped (against the
\* string for a sliced string); a Null intermediate result stays Null.
C7_TailEquivalence ==
    (eval.stage = "evaluated" /\ IsProjectionAst(eval.ast) /\ Last(eval.ast.nodes).k # "None") =>
        LET ip == Interpreter(get_shared_runtime, create_registry, eval.root, eval.overflow_checks)
        IN eval.result =
              C7_ManualTail(ip, Last(eval.ast.nodes), Visit(ip, C7_WithoutTail(eval.ast), eval.root))

\* [{a: 1}, {a: null, b: 1}][*].a evaluated to [1]: the tail drops a Null.
C7_Witness ==
    /\ eval.stage = "evaluated"
    /\ eval.ast = Projection(ListWildcard, NoneNode, UnquotedIdentifier("a"))
    /\ eval.root = Array(<<Object(<<<<"a", Number(1)>>>>), Object(<<<<"a", Null>>, <<"b", Number(1)>>>>)>>)
    /\ eval.result = Ok(Array(<<Number(1)>>))

\* C11: A.B is Null, B not evaluated, when A evaluates to Null, and B
\* evaluated against A's result otherwise; A | B is B evaluated against
\* A's result, a Null one included.
C11_SubAndPipe ==
    (eval.stage = "evaluated" /\ eval.ast \in ChainAsts) =>
        LET ip == Interpreter(get_shared_runtime, create_registry, eval.root, eval.overflow_checks)
            left == Visit(ip, eval.ast.nodes[1], eval.root)
            right == Visit(ip, eval.ast.nodes[2], left.value)
        IN IsOk(left) =>
              IF eval.ast.k = "SubExpression" /\ is_null(left.value)
              THEN eval.result = Ok(Null)
              ELSE eval.result = right

\* a.unknown(@) on {a: null} is Null where a | unknown(@) fails.
C11_Witness ==
    /\ eval.stage = "evaluated"
    /\ eval.ast = SubExpression(UnquotedIdentifier("a"), FunctionExpression("unknown", <<CurrentNode>>))
    /\ eval.root = Object(<<<<"a", Null>>, <<"b", Number(1)>>>>)
    /\ eval.result = Ok(Null)
    /\ search_ast(get_shared_runtime, create_registry,
                  PipeExpression(eval.ast.nodes[1], eval.ast.nodes[2]), eval.root,
                  eval.overflow_checks).kind = "UnknownFunction"

\* C12: an identifier evaluated against a current value of any kind,
\* an expression included, gives the member's value when the value is an
\* object that has the key, and Null otherwise; it never fails.
C12_IdentifierNeverFails ==
    (eval.stage = "evaluated" /\ eval.ast = UnquotedIdentifier("a")) =>
        eval.result =
            IF is_object(eval.root) /\ ObjectContainsKey(eval.root.o, "a")
            THEN Ok(ObjectIndex(eval.root.o, "a"))
            ELSE Ok(Null)

\* The identifier a evaluated against an expression value.
C12_ExpressionInput ==
    /\ eval.stage = "evaluated"
    /\ eval.ast = UnquotedIdentifier("a")
    /\ is_expression(eval.root)
    /\ eval.result.kind = "Panic"

\* The value of the identifier name against a value that is no expression.
C13_Member(value, name) ==
    IF is_object(value) /\ ObjectContainsKey(value.o, name)
    THEN ObjectIndex(value.o, name) ELSE Null

\* C13: an index expression is Null when its left value is no array or
\* when the index, the length added to a negative one, is outside
\* [0, len), and the element at the index otherwise; an ordered
\* comparison is Null when an operand is no number, and a boolean
\* otherwise.  Neither is an error.
C13_FailureSoft ==
    (eval.stage = "evaluated" /\ ~is_expression(eval.root)) =>
        /\ eval.ast \in IndexAsts =>
              LET left == IF eval.ast.nodes[1].k = "None" THEN eval.root
                          ELSE C13_Member(eval.root, "a")
                  number == eval.ast.nodes[2].number
                  index == IF number < 0 THEN number + Len(left.a) ELSE number
              IN IF ~is_array(left) THEN eval.result = Ok(Null)
                 ELSE IF index < 0 \/ index >= Len(left.a) THEN eval.result = Ok(Null)
                 ELSE eval.result = Ok(left.a[index + 1])
        /\ (eval.ast \in ComparatorAsts /\ eval.ast.nodes[2].k \in OrderedOperators) =>
              IF is_number(C13_Member(eval.root, "a")) /\ is_number(C13_Member(eval.root, "b"))
              THEN IsOk(eval.result) /\ is_bool(eval.result.value)
              ELSE eval.result = Ok(Null)

\* [1, 2][-3] evaluated to Null.
C13_Witness ==
    /\ eval.stage = "evaluated"
    /\ eval.ast = IndexExpression(NoneNode, -3)
    /\ eval.root = Array(<<Number(1), Number(2)>>)
    /\ eval.result = Ok(Null)

\* The name of the type of a value, as an error message gives it.
C14_TypeName(v) ==
    CASE v.t = "arr" -> "Array"
      [] v.t = "bool" -> "Boolean"
      [] v.t = "null" -> "Null"
      [] v.t = "obj" -> "Object"
      [] v.t = "str" -> "String"
      [] v.t = "expr" -> "ExpRef"
      [] OTHER -> "Number"

\* C14: a binary arithmetic expression with a left or right operand that
\* is no number, and a unary + or - with such an operand, is a Syntax
\* error at the operator that names the side (the left one when both
\* are no numbers) and the type received; it is never a value.
C14_ArithmeticOnNonNumbers ==
    (eval.stage = "evaluated" /\ eval.ast \in ArithmeticAsts /\ ~is_expression(eval.root)) =>
        LET unary == eval.ast.nodes[1].k = "None"
            left == C13_Member(eval.root, "a")
            right == IF unary THEN left ELSE C13_Member(eval.root, "b")
            position == IF unary THEN Position(1, 1) ELSE Position(1, 3)
        IN IF ~unary /\ ~is_number(left)
           THEN eval.result = ErrAt("Syntax", "left hand side: " \o C14_TypeName(left), position)
           ELSE IF ~is_number(right)
           THEN eval.result = ErrAt("Syntax", "right hand side: " \o C14_TypeName(right), position)
           ELSE eval.result.kind # "Syntax"

\* a + b on {a: 1, b: "x"}: a Syntax error for the right-hand side.
C14_Witness ==
    /\ eval.stage = "evaluated"
    /\ eval.ast = ArithmeticExpression(Operation("Plus"))
    /\ eval.root = Object(<<<<"a", Number(1)>>, <<"b", String(<<"x">>)>>>>)
    /\ eval.result = ErrAt("Syntax", "right hand side: String", Position(1, 3))

\* C15: x / 0, x // 0 and x % 0 are NotANumber errors for every number x.
C15_DivisionByZero ==
    (/\ eval.stage = "evaluated"
     /\ eval.ast \in {ArithmeticExpression(Operation(operator)) :
                        operator \in {"Divide", "Div", "Modulo"}}
     /\ is_object(eval.root)
     /\ is_number(C13_Member(eval.root, "a"))
     /\ C13_Member(eval.root, "b") = Number(0)) =>
        eval.result.kind = "NotANumber"

\* 1 / 0 and F64Max * 2: the results that are not finite and are reported.
C15_NotFiniteReported ==
    /\ eval.stage = "evaluated"
    /\ \/ /\ eval.ast = ArithmeticExpression(Operation("Divide"))
          /\ eval.root = Object(<<<<"a", Number(1)>>, <<"b", Number(0)>>>>)
       \/ /\ eval.ast = ArithmeticExpression(Operation("Multiply"))
          /\ eval.root = Object(<<<<"a", Number(F64Max)>>, <<"b", Number(2)>>>>)
    /\ eval.result = ErrAt("NotANumber", "invalid number", Position(1, 3))

\* C16: x && y is the value of x when x is falsy and that of y
\* otherwise, x || y the value of x when x is truthy and that of y
\* otherwise, also for a y whose evaluation fails; the falsy values are
\* false, null, the empty string, the empty array and the empty object.
C16_ShortCircuit ==
    (/\ eval.stage = "evaluated" /\ eval.ast \in LogicalAsts /\ Len(eval.ast.nodes) = 3
     /\ ~is_expression(eval.root)) =>
        LET ip == Interpreter(get_shared_runtime, create_registry, eval.root, eval.overflow_checks)
            x == C13_Member(eval.root, "a")
            falsy == x \in {Boolean(FALSE), Null, String(<<>>), Array(<<>>), Object(<<>>)}
        IN IF falsy = (eval.ast.nodes[2].k = "And")
           THEN eval.result = Ok(x)
           ELSE eval.result = Visit(ip, eval.ast.nodes[3], eval.root)

\* a && $y on {a: false}, $y undefined.
C16_FailingRight ==
    /\ eval.stage = "evaluated"
    /\ eval.ast = LogicalExpression(<<UnquotedIdentifier("a"),
                                      OperatorNode("And", Position(1, 3)), VariableRef("y")>>)
    /\ eval.root = Object(<<<<"a", Boolean(FALSE)>>, <<"b", Null>>>>)
    /\ eval.result.kind = "UndefinedVariable"

\* C17: a slice projection with step 0 against an array or a string is
\* the InvalidValue error 'slice step cannot be 0' at the slice, whatever
\* the tail.
C17_SliceStepZero ==
    (eval.stage = "evaluated" /\ eval.ast \in SliceStepZeroAsts /\ ~is_expression(eval.root)) =>
        LET left == IF eval.ast.nodes[2].k = "None" THEN eval.root
                    ELSE C13_Member(eval.root, "a")
        IN (is_array(left) \/ is_str(left)) =>
              eval.result = ErrAt("InvalidValue", "slice step cannot be 0", Position(1, 2))

\* [::0] against [1, 2].
C17_Witness ==
    /\ eval.stage = "evaluated"
    /\ eval.ast \in SliceStepZeroAsts
    /\ eval.ast.nodes[2].k = "None"
    /\ eval.root = Array(<<Number(1), Number(2)>>)
    /\ eval.result.kind = "InvalidValue"

\* C18: min_by(array, &expr) is an element of the array whose key, expr
\* evaluated against it, is the smallest number; Null for an empty array;
\* an error, no value, when a key is no number.
C18_MinBy ==
    (eval.stage = "evaluated" /\ eval.ast = MinByAst) =>
        LET array == eval.root.a
            key(i) == C13_Member(array[i], "a")
        IN IF \E i \in 1..Len(array) : ~is_number(key(i))
           THEN eval.result.kind \notin {"Ok", "Panic"}
           ELSE /\ eval.result.kind = "Ok"
                /\ IF array = <<>> THEN eval.result.value = Null
                   ELSE \E i \in 1..Len(array) :
                            /\ eval.result.value = array[i]
                            /\ \A j \in 1..Len(array) : key(i).n <= key(j).n

\* min_by([{a: 2}, {a: 1, b: null}, {a: 1}], &a) is {a: 1, b: null}.
C18_Witness ==
    /\ eval.stage = "evaluated"
    /\ eval.ast = MinByAst
    /\ eval.root = Array(<<Object(<<<<"a", Number(2)>>>>), Object(<<<<"a", Number(1)>>, <<"b", Null>>>>),
                           Object(<<<<"a", Number(1)>>>>)>>)
    /\ eval.result.value = Object(<<<<"a", Number(1)>>, <<"b", Null>>>>)

\* start or end as the claim reads it: the length added to a negative one,
\* then clamped to [0, len].
C19_Bound(x, len) ==
    LET shifted == IF x < 0 THEN x + len ELSE x
    IN IF shifted < 0 THEN 0 ELSE IF shifted > len THEN len ELSE shifted

C19_Indices(subject, sub, start, end) ==
    {i \in 0..Len(subject) :
        /\ C19_Bound(start, Len(subject)) <= i
        /\ i + Len(sub) <= C19_Bound(end, Len(subject))
        /\ SubSeq(subject, i + 1, i + Len(sub)) = sub}

\* A call of find_first with a subject and a sub that are not empty and
\* whole numbers for the start and end it is given.
C19_Called ==
    /\ call.stage = "called"
    /\ call.func.name = "find_first"
    /\ call.args[1].s # <<>> /\ call.args[2].s # <<>>
    /\ \A i \in 3..Len(call.args) : call.args[i].e = 0

C19_Start == IF Len(call.args) > 2 THEN call.args[3].n ELSE 0

C19_End == IF Len(call.args) > 3 THEN call.args[4].n ELSE Len(call.args[1].s)

\* C19: find_first(subject, sub, start, end) is the smallest index i with
\* start' <= i and i + len(sub) <= end' where sub occurs in subject, Null
\* when there is none; start' and end' are start and end with the length
\* of the subject added when negative, then clamped to [0, len]; start
\* defaults to 0 and end to the length.
C19_FindFirst ==
    C19_Called =>
        LET indices == C19_Indices(call.args[1].s, call.args[2].s, C19_Start, C19_End)
        IN /\ call.outcome.kind = "Ok"
           /\ IF indices = {} THEN call.outcome.value = Null
              ELSE /\ is_number(call.outcome.value)
                   /\ call.outcome.value.e = 0
                   /\ call.outcome.value.n \in indices
                   /\ \A i \in indices : call.outcome.value.n <= i

\* find_first("aba", "a", -1) returned 0: the negative start was taken as
\* 0, not as 2.
C19_NegativeStartIgnored ==
    /\ call.stage = "called"
    /\ call.func.name = "find_first"
    /\ call.args = <<String(<<"a", "b", "a">>), String(<<"a">>), Number(-1)>>
    /\ call.outcome.kind = "Ok"
    /\ call.outcome.value = Number(0)

\* The error an argument of CallAsts fails with, "" for one that evaluates.
C22_ArgumentError(arg) ==
    CASE arg.k = "VariableRef" -> "UndefinedVariable"
      [] arg.k = "FunctionExpression" -> "UnknownFunction"
      [] OTHER -> ""

C22_ArgumentValue(arg, value) == IF arg.k = "CurrentNode" THEN value ELSE String(arg.s)

\* What the declaration of a function accepts: a count and the types.
C22_CountAccepted(name, count) == IF name = "sum" THEN count >= 1 ELSE count = 1

C22_TypeAccepted(name, value) ==
    IF name = "length" THEN is_array(value) \/ is_object(value) \/ is_str(value)
    ELSE is_number(value)

\* C22: a function expression evaluates its arguments from left to right
\* before the name is looked up: the first argument that fails gives the
\* error and no function is called; when all evaluate, the call reports
\* UnknownFunction, else InvalidArity, else InvalidType, else the result
\* of the body.
C22_CallOrder ==
    (eval.stage = "evaluated" /\ <<eval.ast, eval.root>> \in CallInputs) =>
        LET name == eval.ast.nodes[1].name
            args == eval.ast.nodes[2].nodes
            failing == {i \in 1..Len(args) : C22_ArgumentError(args[i]) # ""}
        IN IF failing # {}
           THEN /\ eval.result.kind
                      = C22_ArgumentError(args[CHOOSE i \in failing : \A j \in failing : i <= j])
                /\ ~eval.result.executed
           ELSE IF name = "unknown" THEN eval.result.kind = "UnknownFunction"
           ELSE IF ~C22_CountAccepted(name, Len(args))
           THEN eval.result.kind = "InvalidArity" /\ ~eval.result.executed
           ELSE IF \E i \in 1..Len(args) :
                      ~C22_TypeAccepted(name, C22_ArgumentValue(args[i], eval.root))
           THEN eval.result.kind = "InvalidType" /\ ~eval.result.executed
           ELSE eval.result.executed

\* sum(@, 'a') on -1: the body ran although 'a' is no number.
C22_BodyBeforeType ==
    /\ eval.stage = "evaluated"
    /\ eval.ast = FunctionExpression("sum", <<CurrentNode, RawString(<<"a">>)>>)
    /\ eval.root = Number(-1)
    /\ eval.result.executed
    /\ eval.result.kind # "InvalidType"

\* The reference slice of a sequence: a negative bound has the length
\* added, the bounds are clamped to the sequence ([0, len] for a positive
\* step, [-1, len - 1] for a negative one), and the elements at start,
\* start + step, ... before stop are taken.
C24_Reference(sequence, bounds) ==
    LET len == Len(sequence)
        step == IF bounds.step.some THEN bounds.step.v ELSE 1
        lowest == IF step > 0 THEN 0 ELSE -1
        highest == IF step > 0 THEN len ELSE len - 1
        adjusted(x) == IF x < 0 THEN x + len ELSE x
        clamped(x) == IF x < lowest THEN lowest ELSE IF x > highest THEN highest ELSE x
        start == IF bounds.start.some THEN clamped(adjusted(bounds.start.v))
                 ELSE IF step > 0 THEN 0 ELSE len - 1
        stop == IF bounds.stop.some THEN clamped(adjusted(bounds.stop.v))
                ELSE IF step > 0 THEN len ELSE -1
        count == IF step > 0 THEN (IF stop > start THEN (stop - start + step - 1) \div step ELSE 0)
                 ELSE (IF start > stop THEN (start - stop - step - 1) \div (-step) ELSE 0)
    IN [k \in 1..count |-> sequence[start + (k - 1) * step + 1]]

C24_Sliced ==
    /\ eval.stage = "evaluated"
    /\ <<eval.ast, eval.root>> \in SliceAsts \X SliceRoots

\* C24: for every length and every start, stop and non-zero step, each
\* possibly omitted or negative, a slice selects exactly the elements of
\* the reference slice, in its order.
C24_SliceReference ==
    C24_Sliced =>
        /\ eval.result.kind = "Ok"
        /\ IF is_array(eval.root)
           THEN eval.result.value = Array(C24_Reference(eval.root.a, eval.ast.nodes[1]))
           ELSE eval.result.value = String(C24_Reference(eval.root.s, eval.ast.nodes[1]))

\* [1, 2, 3][-4::2] is [2]: the start -4 + 3 = -1 was not clamped to 0.
C24_Unclamped ==
    /\ eval.stage = "evaluated"
    /\ eval.ast = Projection(Slice(SomeIndex(-4), NoIndex, SomeIndex(2)), NoneNode, NoneNode)
    /\ eval.root = Array(<<Number(1), Number(2), Number(3)>>)
    /\ eval.result.value = Array(<<Number(2)>>)

\* C28: a slice of an empty array or string, with any non-zero step and
\* any start and stop, is the empty array or string; the default start
\* of a negative step, len - 1, never underflows or aborts.
C28_EmptySlice ==
    (C24_Sliced /\ eval.root \in {Array(<<>>), String(<<>>)}) =>
        eval.result.kind = "Ok" /\ eval.result.value = eval.root

\* [][::-1] aborted in a build with overflow checks.
C28_Underflow ==
    /\ eval.stage = "evaluated"
    /\ eval.ast = Projection(Slice(NoIndex, NoIndex, SomeIndex(-1)), NoneNode, NoneNode)
    /\ eval.root = Array(<<>>)
    /\ eval.overflow_checks
    /\ eval.result.kind = "Panic"

\* What a bound expression of LetExpressions evaluates to where the
\* enclosing let, if any, bound the name outer ("" for none): its kind
\* and value.
C25_Bound(expression, outer, value) ==
    CASE expression.k = "RawString" -> [kind |-> "Ok", value |-> String(expression.s)]
      [] expression.k = "UnquotedIdentifier" -> [kind |-> "Ok", value |-> C13_Member(value, expression.name)]
      [] OTHER -> IF expression.name = outer THEN [kind |-> "Ok", value |-> String(<<"o">>)]
                  ELSE [kind |-> "UndefinedVariable", value |-> Null]

C25_Expected(first, second, outer, value) ==
    LET x == C25_Bound(first, outer, value)
        y == C25_Bound(second, outer, value)
    IN IF x.kind # "Ok" THEN x
       ELSE IF y.kind # "Ok" THEN y
       ELSE [kind |-> "Ok", value |-> Array(<<x.value, y.value>>)]

\* C25: in let $v1 = e1, ..., $vn = en in body each ei is evaluated in
\* declaration order against the scope chain and current value that
\* enclose the let expression, so a reference in ei to a variable bound
\* earlier in the same let does not see that binding; the body is
\* evaluated with one new frame holding all the bindings on top of the
\* enclosing chain.
C25_LetBindings ==
    (eval.stage = "evaluated" /\ <<eval.ast, eval.root>> \in LetPairInputs) =>
        \A first \in LetExpressions, second \in LetExpressions :
            /\ eval.ast = LetPair(first, second) =>
                  /\ eval.result.kind = C25_Expected(first, second, "", eval.root).kind
                  /\ eval.result.value = C25_Expected(first, second, "", eval.root).value
            /\ \A outer \in LetNames :
                  eval.ast = LetExpression(<<VariableRef(outer), RawString(<<"o">>)>>, LetPair(first, second)) =>
                      /\ eval.result.kind = C25_Expected(first, second, outer, eval.root).kind
                      /\ eval.result.value = C25_Expected(first, second, outer, eval.root).value

\* let $x = 'o' in let $x = 'i', $y = $x in [$x, $y] is ["i", "o"]: $y
\* was bound to the enclosing $x, the body saw the new one.
C25_Witness ==
    /\ eval.stage = "evaluated"
    /\ eval.ast = LetExpression(<<VariableRef("x"), RawString(<<"o">>)>>,
                                LetPair(RawString(<<"i">>), VariableRef("x")))
    /\ eval.result.kind = "Ok"
    /\ eval.result.value = Array(<<String(<<"i">>), String(<<"o">>)>>)

\* C26: for every function with a valid signature and every argument
\* vector the arity check accepts, the empty one included, the type check
\* completes: the call returns InvalidType or goes on to the body; it
\* does not abort before.
C26_TypeCheckCompletes ==
    (call.stage = "called" /\ ~CountOutside(call.func.signature, call.args)) =>
        call.outcome.kind = "InvalidType" \/ call.outcome.executed

\* A call with no argument of a function whose only parameter is Optional
\* aborted in the type check.
C26_Aborted ==
    /\ call.stage = "called"
    /\ call.func.signature = <<Optional(<<"Number">>)>>
    /\ call.args = <<>>
    /\ call.outcome.kind = "Panic"
    /\ ~call.outcome.executed

\* A call of contains with a string to search and a string to search for.
C29_Called ==
    /\ call.stage = "called"
    /\ call.func.name = "contains"
    /\ is_str(call.args[1])
    /\ is_str(call.args[2])

\* C29: contains(subject, search) of two strings returns a Boolean, whatever
\* the strings are, the empty search string included; it never aborts.
C29_ContainsReturns ==
    C29_Called => call.outcome.kind = "Ok" /\ is_bool(call.outcome.value)

\* contains("a", "") aborted in the body: a slice has no windows of size
\* zero.
C29_EmptySearch ==
    /\ C29_Called
    /\ call.args = <<String(<<"a">>), String(<<>>)>>
    /\ call.outcome.kind = "Panic"
    /\ call.outcome.executed

\* C20: an error returned by an evaluation carries a position.
C20_ErrorsPositioned ==
    (eval.stage = "evaluated" /\ eval.result.kind \notin {"Ok", "Panic"}) =>
        eval.result.position.some

\* Errors of every kind that come without a position.
C20_Unpositioned ==
    /\ eval.stage = "evaluated"
    /\ eval.result.kind \in {"UndefinedVariable", "UnknownFunction", "InvalidArity", "InvalidType"}
    /\ ~eval.result.position.some


(***************************************************************************)
(* Value equality (value_eq.rs).                                           *)
(***************************************************************************)
\* f64::EPSILON, 2^-52, in the unit of a number's e: 2^-53.
EPSILON == 2

\* Numbers that differ in their whole part are at least 1 - 2^-52 apart.
float_eq(a, b) == a.n = b.n /\ Abs(b.e - a.e) < EPSILON

\* What #[derive(PartialEq)] would give.
ValueEqDerived(self, other) == self = other

ValueEq(self, other) ==
    CASE is_expression(self) -> FALSE
      [] is_null(self) -> is_null(other)
      [] is_array(self) ->
            /\ is_array(other)
            /\ Len(self.a) = Len(other.a)
            /\ \A i \in 1..Len(self.a) : ValueEq(self.a[i], other.a[i])
      [] is_bool(self) -> is_bool(other) /\ self.b = other.b
      [] is_number(self) -> is_number(other) /\ float_eq(self, other)
      [] is_str(self) -> is_str(other) /\ self.s = other.s
      [] is_object(self) ->
            /\ is_object(other)
            /\ Len(self.o) = Len(other.o)
            /\ \A i \in 1..Len(self.o) :
                  /\ ObjectContainsKey(other.o, self.o[i][1])
                  /\ ValueEq(self.o[i][2], ObjectIndex(other.o, self.o[i][1]))

EqElements == {NumberEps(0, 0), NumberEps(0, 1), NumberEps(0, 2), Expression(CurrentNode)}

EqValues ==
    {Null, Boolean(TRUE), Boolean(FALSE), String(<<>>), String(<<"a">>), Number(1),
     Expression(UnquotedIdentifier("a"))}
        \cup EqElements
        \cup {Array(a) : a \in SeqsUpTo(EqElements, MaxEqLen)}
        \cup {Object(<<>>)}
        \cup {Object(<<<<"a", v>>>>) : v \in EqElements}
        \cup {Object(<<<<"a", NumberEps(0, 0)>>, <<"b", NumberEps(0, 2)>>>>),
              Object(<<<<"b", NumberEps(0, 2)>>, <<"a", NumberEps(0, 0)>>>>)}

EqInit ==
    /\ eq \in {[stage |-> "given", a |-> a, b |-> b, c |-> c,
                aa |-> FALSE, ab |-> FALSE, ba |-> FALSE, bc |-> FALSE, ac |-> FALSE] :
                    a \in EqValues, b \in EqValues, c \in EqValues}
    /\ REGISTRY = Idle /\ runtimes = Idle /\ last = Idle /\ call = Idle /\ eval = Idle
    /\ threads = Idle /\ parse = Idle /\ errors = Idle

\* a == a, a == b, b == a, b == c and a == c.
EqCompare ==
    /\ eq.stage = "given"
    /\ eq' = [eq EXCEPT !.stage = "compared",
                        !.aa = ValueEq(eq.a, eq.a),
                        !.ab = ValueEq(eq.a, eq.b),
                        !.ba = ValueEq(eq.b, eq.a),
                        !.bc = ValueEq(eq.b, eq.c),
                        !.ac = ValueEq(eq.a, eq.c)]
    /\ UNCHANGED <<REGISTRY, runtimes, last, call, eval, threads, parse, errors>>

EqNext == EqCompare

SpecEq == EqInit /\ [][EqNext]_vars

\* C6, as stated: equality is reflexive for every value, symmetric and
\* transitive, and two Expression values never compare equal.
C6_Equivalence ==
    eq.stage = "compared" =>
        /\ eq.aa
        /\ eq.ab = eq.ba
        /\ (eq.ab /\ eq.bc) => eq.ac
        /\ (is_expression(eq.a) /\ is_expression(eq.b)) => ~eq.ab

RECURSIVE C6_HoldsExpression(_)
C6_HoldsExpression(v) ==
    CASE is_expression(v) -> TRUE
      [] is_array(v) -> \E i \in 1..Len(v.a) : C6_HoldsExpression(v.a[i])
      [] is_object(v) -> \E i \in 1..Len(v.o) : C6_HoldsExpression(v.o[i][2])
      [] OTHER -> FALSE

RECURSIVE C6_NumbersOf(_)
C6_NumbersOf(v) ==
    CASE is_number(v) -> {v}
      [] is_array(v) -> UNION {C6_NumbersOf(v.a[i]) : i \in 1..Len(v.a)}
      [] is_object(v) -> UNION {C6_NumbersOf(v.o[i][2]) : i \in 1..Len(v.o)}
      [] OTHER -> {}

\* Numbers that are pairwise identical or at least an epsilon apart.
C6_Separated(numbers) ==
    \A x \in numbers, y \in numbers :
        x = y \/ x.n # y.n \/ Abs(x.e - y.e) >= EPSILON

\* C6, amended: equality is symmetric; it is reflexive for every value
\* that holds no Expression; an Expression equals no value, itself
\* included; it is transitive over values whose numbers are pairwise
\* identical or at least an epsilon apart.
C6_EqualityAmended ==
    eq.stage = "compared" =>
        /\ eq.ab = eq.ba
        /\ ~C6_HoldsExpression(eq.a) => eq.aa
        /\ (is_expression(eq.a) \/ is_expression(eq.b)) => ~eq.ab
        /\ (C6_Separated(C6_NumbersOf(eq.a) \cup C6_NumbersOf(eq.b) \cup C6_NumbersOf(eq.c))
                /\ eq.ab /\ eq.bc) => eq.ac

\* Two objects with the same entries in a different order.
C6_Witness ==
    /\ eq.stage = "compared"
    /\ eq.a = Object(<<<<"a", NumberEps(0, 0)>>, <<"b", NumberEps(0, 2)>>>>)
    /\ eq.b = Object(<<<<"b", NumberEps(0, 2)>>, <<"a", NumberEps(0, 0)>>>>)
    /\ eq.c = eq.a
    /\ eq.aa /\ eq.ab /\ eq.ba /\ eq.bc /\ eq.ac


(***************************************************************************)
(* Runtimes.  The program obtains runtimes, shared or created, registers   *)
(* declared functions in them, calls functions and searches.  REGISTRY     *)
(* is initialized the first time it is dereferenced.                       *)
(***************************************************************************)
\* Functions a program declares with the function! macro: add of the
\* tests, an abs of its own, and two whose parameters break the pattern.
Declarations ==
    {[name |-> "add", signature |-> <<Required(<<"Number">>), Required(<<"Number">>)>>, body |-> "unwrap"],
     [name |-> "abs", signature |-> <<Required(<<"String">>)>>, body |-> "unwrap"],
     [name |-> "first", signature |-> <<Optional(<<"Number">>), Required(<<"Number">>)>>, body |-> "unwrap"],
     [name |-> "many", signature |-> <<Required(<<"Number">>), Variadic(<<"Number">>),
                                       Variadic(<<"Number">>)>>, body |-> "unwrap"]}

FunctionNames == {"abs", "length", "ceil", "add", "first", "many"}

ArgumentVectors == {<<Number(-1)>>, <<String(<<"a">>)>>, <<Number(1), Number(1)>>}

SearchAsts ==
    {FunctionExpression("abs", <<CurrentNode>>),
     FunctionExpression("add", <<CurrentNode, CurrentNode>>),
     FunctionExpression("ceil", <<CurrentNode>>),
     Projection(ListWildcard, NoneNode, FunctionExpression("length", <<CurrentNode>>))}

SearchRoots == {Number(-1), Array(<<String(<<"a">>)>>)}

Uninitialized == [initialized |-> FALSE, registry |-> RegistryNew]

\* The dereference of the lazy static.
Deref(lazy) == IF lazy.initialized THEN lazy ELSE [initialized |-> TRUE, registry |-> create_registry]

Done(op, runtime, name, outcome) ==
    [op |-> op, runtime |-> runtime, name |-> name, outcome |-> outcome,
     overflow_checks |-> last.overflow_checks]

Init ==
    /\ REGISTRY = Uninitialized
    /\ runtimes = <<>>
    /\ last \in {[op |-> "start", runtime |-> 0, name |-> "", outcome |-> Ok(Null),
                  overflow_checks |-> overflow_checks] : overflow_checks \in BOOLEAN}
    /\ call = Idle /\ eval = Idle /\ eq = Idle
    /\ threads = Idle /\ parse = Idle /\ errors = Idle

GetSharedRuntime ==
    /\ Len(runtimes) < MaxRuntimes
    /\ REGISTRY' = Deref(REGISTRY)
    /\ runtimes' = Append(runtimes, get_shared_runtime)
    /\ last' = Done("get_shared_runtime", Len(runtimes) + 1, "", Ok(Null))
    /\ UNCHANGED <<call, eval, eq, threads, parse, errors>>

CreateRuntime ==
    /\ Len(runtimes) < MaxRuntimes
    /\ REGISTRY' = Deref(REGISTRY)
    /\ runtimes' = Append(runtimes, create_runtime)
    /\ last' = Done("create_runtime", Len(runtimes) + 1, "", Ok(Null))
    /\ UNCHANGED <<call, eval, eq, threads, parse, errors>>

\* runtime.register(Box::new(name::new())) of a declared function.
Register(i, decl) ==
    LET made == FunctionNew(decl)
        after == RuntimeRegister(runtimes[i], REGISTRY.registry, made.func)
    IN IF made.panic
       THEN /\ last' = Done("register", i, decl.name, Panic("The signature is invalid"))
            /\ UNCHANGED <<REGISTRY, runtimes, call, eval, eq, threads, parse, errors>>
       ELSE /\ last' = Done("register", i, decl.name,
                            IF after.panic THEN Panic("Cannot update an immutable shared registry!")
                            ELSE Ok(Null))
            /\ runtimes' = [runtimes EXCEPT ![i] = after.runtime]
            /\ REGISTRY' = [REGISTRY EXCEPT !.registry = after.shared]
            /\ UNCHANGED <<call, eval, eq, threads, parse, errors>>

Call(i, fname, args) ==
    /\ last' = Done("call", i, fname,
                    RuntimeCall(runtimes[i], REGISTRY.registry, fname, args,
                                Interpreter(runtimes[i], REGISTRY.registry, Null, last.overflow_checks)))
    /\ UNCHANGED <<REGISTRY, runtimes, call, eval, eq, threads, parse, errors>>

SearchAst(i, ast, root) ==
    /\ last' = Done("search_ast", i, "",
                    search_ast(runtimes[i], REGISTRY.registry, ast, root, last.overflow_checks))
    /\ UNCHANGED <<REGISTRY, runtimes, call, eval, eq, threads, parse, errors>>

Next ==
    \/ GetSharedRuntime
    \/ CreateRuntime
    \/ \E i \in 1..Len(runtimes), decl \in Declarations : Register(i, decl)
    \/ \E i \in 1..Len(runtimes), fname \in FunctionNames, args \in ArgumentVectors : Call(i, fname, args)
    \/ \E i \in 1..Len(runtimes), ast \in SearchAsts, root \in SearchRoots : SearchAst(i, ast, root)

Spec == Init /\ [][Next]_vars

\* The registries of a state: the shared one once it is initialized, and
\* those of the created runtimes.
RegistriesHeld ==
    (IF REGISTRY.initialized THEN {REGISTRY.registry} ELSE {})
        \cup {runtimes[i].registry.v : i \in {j \in 1..Len(runtimes) : runtimes[j].registry.some}}

\* C8: whatever has been done, a shared runtime resolves exactly the
\* initial built-in functions; register on a created runtime changes the
\* registry of that runtime only, and register on a shared runtime is
\* rejected and leaves the shared registry as it was.
C8_SharedRegistryFixed ==
    /\ [](/\ REGISTRY.initialized => REGISTRY.registry = create_registry
          /\ \A i \in 1..Len(runtimes) :
                ~runtimes[i].registry.some =>
                    \A name \in FunctionNames \cup DOMAIN create_registry.functions :
                        RuntimeGet(runtimes[i], REGISTRY.registry, name)
                            = RegistryGet(create_registry, name))
    /\ [][last'.op = "register" =>
            /\ REGISTRY' = REGISTRY
            /\ \A j \in 1..Len(runtimes) : j # last'.runtime => runtimes'[j] = runtimes[j]
            /\ ~runtimes[last'.runtime].registry.some =>
                    last'.outcome.kind = "Panic" /\ runtimes' = runtimes]_vars

\* register of add on a shared runtime was rejected, while a created
\* runtime holds an add of its own.
C8_Witness ==
    /\ last.op = "register" /\ last.name = "add"
    /\ ~runtimes[last.runtime].registry.some
    /\ last.outcome = Panic("Cannot update an immutable shared registry!")
    /\ \E j \in 1..Len(runtimes) :
          runtimes[j].registry.some /\ RegistryGet(runtimes[j].registry.v, "add").some
    /\ REGISTRY.registry = create_registry

\* Zero or more Required parameters, then zero or more Optional ones or a
\* single Variadic one.
C9_Pattern(signature) ==
    \E k \in 0..Len(signature) :
        /\ \A i \in 1..k : signature[i].kind = "r"
        /\ \/ \A i \in (k + 1)..Len(signature) : signature[i].kind = "o"
           \/ Len(signature) = k + 1 /\ signature[k + 1].kind = "v"

C9_Rejected == {decl.name : decl \in {d \in Declarations : ~C9_Pattern(d.signature)}}

C10_BuiltinNames ==
    {"abs", "ceil", "floor", "avg", "length", "reverse", "contains", "starts_with",
     "ends_with", "find_first", "keys", "items", "from_items", "min_by", "pad_left",
     "pad_right"}

\* C10: in a runtime as create_runtime or get_shared_runtime returns it,
\* each built-in name resolves to a function, and a call of one never
\* yields UnknownFunction.
C10_BuiltinsResolve ==
    /\ last.op \in {"get_shared_runtime", "create_runtime"} =>
          \A name \in C10_BuiltinNames :
              RuntimeGet(runtimes[last.runtime], REGISTRY.registry, name).some
    /\ (/\ last.op = "call"
        /\ last.name \in C10_BuiltinNames
        /\ runtimes[last.runtime] \in {get_shared_runtime, create_runtime}) =>
          last.outcome.kind # "UnknownFunction"

(***************************************************************************)
(* Threads.  Each thread of a program obtains the shared runtime, which    *)
(* dereferences the lazy static REGISTRY, and searches with it.  The       *)
(* lazy static runs its initializer under a Once: the first thread to      *)
(* arrive runs it, the threads that arrive meanwhile wait for it.          *)
(***************************************************************************)
MaxThreads == 2

\* length(@), abs(@), unknown(@) and [*].length(@), on roots that give
\* values and errors.
ThreadInputs ==
    {FunctionExpression("length", <<CurrentNode>>), FunctionExpression("abs", <<CurrentNode>>),
     FunctionExpression("unknown", <<CurrentNode>>),
     Projection(ListWildcard, NoneNode, FunctionExpression("length", <<CurrentNode>>))}
        \X {Number(-1), Array(<<String(<<"a">>)>>)}

\* Once::call_once lets every thread in while the initializer has not
\* completed.
OnceAcquireUnguarded(lazy) == ~lazy.initialized

\* Once::call_once: the thread that finds the Once incomplete and not
\* running becomes the one that runs the initializer.
OnceAcquire(lazy) == ~lazy.initialized /\ ~lazy.running

ThreadsInit ==
    /\ REGISTRY = [initialized |-> FALSE, registry |-> RegistryNew, running |-> FALSE,
                   initializations |-> 0]
    /\ threads \in {[t \in 1..MaxThreads |->
                        [pc |-> "start", ast |-> inputs[t][1], root |-> inputs[t][2],
                         overflow_checks |-> overflow_checks, runtime |-> NoneOf,
                         interpreter |-> NoneOf, result |-> Ok(Null)]] :
                    inputs \in [1..MaxThreads -> ThreadInputs], overflow_checks \in BOOLEAN}
    /\ runtimes = Idle /\ last = Idle /\ call = Idle /\ eval = Idle /\ eq = Idle
    /\ parse = Idle /\ errors = Idle

\* Runtime::get_shared_runtime: &REGISTRY dereferences the lazy static.
\* The thread starts the initializer, or finds the registry initialized;
\* while another thread runs the initializer it waits.
ThreadGetSharedRuntime(t) ==
    /\ threads[t].pc = "start"
    /\ IF OnceAcquire(REGISTRY)
       THEN /\ REGISTRY' = [REGISTRY EXCEPT !.running = TRUE]
            /\ threads' = [threads EXCEPT ![t].pc = "initializing"]
       ELSE /\ REGISTRY.initialized
            /\ threads' = [threads EXCEPT ![t].pc = "ready", ![t].runtime = SomeOf(get_shared_runtime)]
            /\ UNCHANGED REGISTRY
    /\ UNCHANGED <<runtimes, last, call, eval, eq, parse, errors>>

\* The initializer, Box::new(Registry::create_registry()), completes.
ThreadInitialized(t) ==
    /\ threads[t].pc = "initializing"
    /\ REGISTRY' = [REGISTRY EXCEPT !.initialized = TRUE, !.running = FALSE,
                                    !.registry = create_registry,
                                    !.initializations = @ + 1]
    /\ threads' = [threads EXCEPT ![t].pc = "ready", ![t].runtime = SomeOf(get_shared_runtime)]
    /\ UNCHANGED <<runtimes, last, call, eval, eq, parse, errors>>

\* search_ast: Interpreter::new(self, root).
ThreadInterpreterNew(t) ==
    /\ threads[t].pc = "ready"
    /\ threads' = [threads EXCEPT
                      ![t].pc = "evaluating",
                      ![t].interpreter = SomeOf(Interpreter(threads[t].runtime.v, REGISTRY.registry,
                                                            threads[t].root, threads[t].overflow_checks))]
    /\ UNCHANGED <<REGISTRY, runtimes, last, call, eval, eq, parse, errors>>

\* search_ast: interpreter.evaluate(&ast).  The functions are looked up
\* in the shared registry as it is when the thread evaluates.
ThreadEvaluate(t) ==
    /\ threads[t].pc = "evaluating"
    /\ threads' = [threads EXCEPT
                      ![t].pc = "done",
                      ![t].result = evaluate([threads[t].interpreter.v EXCEPT
                                                !.shared = REGISTRY.registry],
                                             threads[t].ast)]
    /\ UNCHANGED <<REGISTRY, runtimes, last, call, eval, eq, parse, errors>>

ThreadsNext ==
    \E t \in 1..MaxThreads :
        \/ ThreadGetSharedRuntime(t)
        \/ ThreadInitialized(t)
        \/ ThreadInterpreterNew(t)
        \/ ThreadEvaluate(t)

SpecThreads == ThreadsInit /\ [][ThreadsNext]_vars

MultiSelectHash(entries) == [k |-> "MultiSelectHash", entries |-> entries]

Dot == [k |-> "Dot"]

RECURSIVE make_sub_expression(_)
make_sub_expression(nodes) ==
    CASE nodes[1].k = "HashWildcardProjection" ->
            HashWildcardProjection(
                nodes[1].nodes[1],
                IF nodes[1].nodes[2].k = "None" THEN nodes[3]
                ELSE make_sub_expression(<<nodes[1].nodes[2], nodes[2], nodes[3]>>))
      [] nodes[1].k = "LetExpression" ->
            [k |-> "LetExpression",
             nodes |-> <<nodes[1].nodes[1],
                         make_sub_expression(<<nodes[1].nodes[2], nodes[2], nodes[3]>>)>>]
      [] nodes[1].k = "Projection" ->
            Projection(
                nodes[1].nodes[1], nodes[1].nodes[2],
                IF nodes[1].nodes[3].k = "None" THEN nodes[3]
                ELSE make_sub_expression(<<nodes[1].nodes[3], nodes[2], nodes[3]>>))
      [] OTHER -> SubExpression(nodes[1], nodes[3])

sub_expression(nodes) ==
    CASE nodes[1].k = "LetExpression" ->
            [k |-> "LetExpression",
             nodes |-> <<nodes[1].nodes[1],
                         make_sub_expression(<<nodes[1].nodes[2], nodes[2], nodes[3]>>)>>]
      [] nodes[1].k = "HashWildcardProjection" /\ nodes[3].k = "HashWildcardProjection" ->
            make_sub_expression(nodes)
      [] nodes[1].k # "HashWildcardProjection" /\ nodes[3].k = "HashWildcardProjection" ->
            HashWildcardProjection(nodes[1], nodes[3].nodes[2])
      [] OTHER -> make_sub_expression(nodes)

\* hash_wildcard: the node of a star.
hash_wildcard == HashWildcardProjection(NoneNode, NoneNode)

\* What may follow a dot: an identifier, a function call, a multi-select
\* list, a multi-select hash, a hash wildcard.
SubExpressionRhs ==
    {UnquotedIdentifier("b"), FunctionExpression("abs", <<CurrentNode>>),
     MultiSelectList(<<CurrentNode>>), MultiSelectHash(<<<<"c", CurrentNode>>>>), hash_wildcard}

\* The projections the parser builds, of every kind, with a right slot
\* that is empty, holds an expression, or holds another projection.
ParseProjections ==
    LET kinds == {ListWildcard, Flatten, Filter(CurrentNode), Slice(NoIndex, NoIndex, NoIndex)}
        lefts == {NoneNode, UnquotedIdentifier("a")}
        make(kind, left, right) ==
            IF kind.k = "Star" THEN HashWildcardProjection(left, right) ELSE Projection(kind, left, right)
        inner == {make(kind, NoneNode, right) :
                    kind \in kinds \cup {[k |-> "Star"]}, right \in {NoneNode, UnquotedIdentifier("a")}}
    IN {make(kind, left, right) :
            kind \in kinds \cup {[k |-> "Star"]}, left \in lefts,
            right \in {NoneNode, UnquotedIdentifier("a")} \cup inner}

ParseLefts ==
    ParseProjections
        \cup {UnquotedIdentifier("a"),
               LetExpression(<<VariableRef("x"), CurrentNode>>, UnquotedIdentifier("a")),
               LetExpression(<<VariableRef("x"), CurrentNode>>,
                             Projection(ListWildcard, UnquotedIdentifier("a"), NoneNode))}

ParseInit ==
    /\ parse \in {[stage |-> "shifted", nodes |-> <<lhs, Dot, rhs>>, ast |-> NoneNode] :
                    lhs \in ParseLefts, rhs \in SubExpressionRhs}
    /\ REGISTRY = Idle /\ runtimes = Idle /\ last = Idle /\ call = Idle /\ eval = Idle /\ eq = Idle
    /\ threads = Idle /\ errors = Idle

\* "expression" => rules "expression" "dot" "sub_expression_rhs" => sub_expression
ParseReduce ==
    /\ parse.stage = "shifted"
    /\ parse' = [parse EXCEPT !.stage = "reduced", !.ast = sub_expression(parse.nodes)]
    /\ UNCHANGED <<REGISTRY, runtimes, last, call, eval, eq, threads, errors>>

ParseNext == ParseReduce

SpecParse == ParseInit /\ [][ParseNext]_vars

\* lhs with rhs in its right slot, or in the right slot of the innermost
\* projection that occupies it; an expression that is no projection and
\* occupies the slot becomes the left of a sub-expression with rhs.
RECURSIVE C23_Absorbed(_, _)
C23_Absorbed(lhs, rhs) ==
    IF ~IsProjectionAst(lhs) THEN SubExpression(lhs, rhs)
    ELSE LET slot == Len(lhs.nodes)
         IN [lhs EXCEPT !.nodes[slot] = IF lhs.nodes[slot] = NoneNode THEN rhs
                                        ELSE C23_Absorbed(lhs.nodes[slot], rhs)]

\* C23: when lhs . rhs is reduced and lhs is a projection, rhs is placed in
\* the right slot of lhs, or recursively of the innermost projection
\* occupying that slot, for every kind of rhs allowed after a dot; the
\* projection is never the left child of another node.
C23_DotAbsorbed ==
    (parse.stage = "reduced" /\ IsProjectionAst(parse.nodes[1])) =>
        parse.ast = C23_Absorbed(parse.nodes[1], parse.nodes[3])

\* a[*].* was reduced to a hash wildcard projection whose left child is
\* the projection a[*].
C23_ProjectionWrapped ==
    /\ parse.stage = "reduced"
    /\ parse.nodes[1] = Projection(ListWildcard, UnquotedIdentifier("a"), NoneNode)
    /\ parse.nodes[3] = hash_wildcard
    /\ parse.ast = HashWildcardProjection(parse.nodes[1], NoneNode)

(***************************************************************************)
(* Per-instance runtimes.  The program creates runtimes, registers         *)
(* functions in them, more than one under a name, and calls them.          *)
(***************************************************************************)
\* The declarations of the program and a second function named add.
Redeclarations ==
    Declarations \cup {[name |-> "add", signature |-> <<Required(<<"String">>)>>, body |-> "unwrap"]}

InstanceNext ==
    \/ CreateRuntime
    \/ \E i \in 1..Len(runtimes), decl \in Redeclarations : Register(i, decl)
    \/ \E i \in 1..Len(runtimes), fname \in FunctionNames, args \in ArgumentVectors : Call(i, fname, args)

SpecInstance == Init /\ [][InstanceNext]_vars

\* A runtime that holds the function func and no other.
C27_Alone(func) == [registry |-> SomeOf(RegistryRegister(RegistryNew, func))]

\* C27: registering a function under a name a per-instance runtime
\* already holds (a built-in or an earlier custom function) replaces the
\* earlier one: the name resolves to the registered function until the
\* next registration under it, and a call by the name gives what a call
\* of that function gives.
C27_RegisterReplaces ==
    /\ [][\A i \in 1..Len(runtimes), decl \in Redeclarations :
            (/\ last'.op = "register" /\ last'.runtime = i /\ last'.name = decl.name
             /\ last'.outcome.kind = "Ok"
             /\ Register(i, decl)) =>
                RuntimeGet(runtimes'[i], REGISTRY'.registry, decl.name)
                    = SomeOf([name |-> decl.name, signature |-> decl.signature, body |-> decl.body])]_vars
    /\ [][\A i \in 1..Len(runtimes), name \in FunctionNames :
            (runtimes[i].registry.some
                /\ ~(last'.op = "register" /\ last'.runtime = i /\ last'.name = name)) =>
                RuntimeGet(runtimes'[i], REGISTRY'.registry, name)
                    = RuntimeGet(runtimes[i], REGISTRY.registry, name)]_vars
    /\ [][\A i \in 1..Len(runtimes), fname \in FunctionNames, args \in ArgumentVectors :
            (/\ last'.op = "call" /\ last'.runtime = i /\ last'.name = fname
             /\ runtimes[i].registry.some
             /\ RuntimeGet(runtimes[i], REGISTRY.registry, fname).some
             /\ Call(i, fname, args)) =>
                LET func == RuntimeGet(runtimes[i], REGISTRY.registry, fname).v
                IN last'.outcome
                      = RuntimeCall(C27_Alone(func), RegistryNew, fname, args,
                                    Interpreter(C27_Alone(func), RegistryNew, Null,
                                                last.overflow_checks))]_vars

\* A created runtime in which the program registered its own abs over
\* the built-in one and the second add: the call abs("a") ran the
\* program's function.
C27_Witness ==
    /\ last.op = "call" /\ last.name = "abs"
    /\ runtimes[last.runtime].registry.some
    /\ RuntimeGet(runtimes[last.runtime], REGISTRY.registry, "abs").v.signature
          = <<Required(<<"String">>)>>
    /\ RuntimeGet(runtimes[last.runtime], REGISTRY.registry, "add").some
    /\ RuntimeGet(runtimes[last.runtime], REGISTRY.registry, "add").v.signature
          = <<Required(<<"String">>)>>
    /\ last.outcome.kind = "Ok" /\ last.outcome.executed
    /\ last.outcome.value = Boolean(TRUE)


(***************************************************************************)
(* Equality and ordering of errors (errors/error.rs, errors/kind.rs,       *)
(* errors/position.rs).  A string is the sequence of its characters.       *)
(***************************************************************************)
\* The characters of the kinds' names and of the messages, in the order of
\* their bytes.
CharOrder ==
    <<"-", "a", "b", "c", "d", "e", "f", "i", "k", "l", "m", "n", "o", "p", "r", "s", "t", "u",
      "v", "w", "x", "y">>

CharCode(c) == CHOOSE i \in 1..Len(CharOrder) : CharOrder[i] = c

\* str::cmp: the first differing byte decides, then the lengths.
RECURSIVE StrCmp(_, _)
StrCmp(a, b) ==
    IF a = <<>> /\ b = <<>> THEN "Equal"
    ELSE IF a = <<>> THEN "Less"
    ELSE IF b = <<>> THEN "Greater"
    ELSE IF CharCode(Head(a)) < CharCode(Head(b)) THEN "Less"
    ELSE IF CharCode(Head(a)) > CharCode(Head(b)) THEN "Greater"
    ELSE StrCmp(Tail(a), Tail(b))

\* Display for Kind.
KindDisplay(kind) ==
    CASE kind = "InvalidArity" -> <<"i", "n", "v", "a", "l", "i", "d", "-", "a", "r", "i", "t", "y">>
      [] kind = "InvalidType" -> <<"i", "n", "v", "a", "l", "i", "d", "-", "t", "y", "p", "e">>
      [] kind = "InvalidValue" -> <<"i", "n", "v", "a", "l", "i", "d", "-", "v", "a", "l", "u", "e">>
      [] kind = "NotANumber" -> <<"n", "o", "t", "-", "a", "-", "n", "u", "m", "b", "e", "r">>
      [] kind = "UndefinedVariable" ->
            <<"u", "n", "d", "e", "f", "i", "n", "e", "d", "-", "v", "a", "r", "i", "a", "b", "l", "e">>
      [] kind = "UnknownFunction" ->
            <<"u", "n", "k", "n", "o", "w", "n", "-", "f", "u", "n", "c", "t", "i", "o", "n">>
      [] kind = "Syntax" -> <<"s", "y", "n", "t", "a", "x">>

\* Kinds are equal by discriminant and ordered by what they display.
KindEq(self, other) == self = other

KindCmp(self, other) == StrCmp(KindDisplay(self), KindDisplay(other))

PositionEq(self, other) == self.line = other.line /\ self.column = other.column

\* struct Error
Error(kind, message, position) == [kind |-> kind, message |-> message, position |-> position]

\* PartialEq for Error: the positions count when both errors have one.
ErrorEq(self, other) ==
    LET eq_positions == IF self.position.some /\ other.position.some
                        THEN PositionEq(self.position.v, other.position.v)
                        ELSE TRUE
    IN KindEq(self.kind, other.kind) /\ self.message = other.message /\ eq_positions

\* Ord for Error: the kinds, then the messages.
ErrorCmp(self, other) ==
    LET kinds == KindCmp(self.kind, other.kind)
    IN IF kinds # "Equal" THEN kinds ELSE StrCmp(self.message, other.message)

ErrorKinds == {"InvalidArity", "InvalidValue", "Syntax"}

ErrorMessages == {<<"a">>, <<"a", "a">>, <<"b">>}

ErrorPositions == {NoneOf, SomeOf(Position(1, 1)), SomeOf(Position(2, 1))}

Errors ==
    {Error(kind, message, position) :
        kind \in ErrorKinds, message \in ErrorMessages, position \in ErrorPositions}

ErrorsInit ==
    /\ errors \in {[stage |-> "given", a |-> a, b |-> b, c |-> c,
                    ab |-> FALSE, bc |-> FALSE, ac |-> FALSE, cmp_ab |-> "Equal"] :
                        a \in Errors, b \in Errors, c \in Errors}
    /\ REGISTRY = Idle /\ runtimes = Idle /\ last = Idle /\ call = Idle /\ eval = Idle
    /\ eq = Idle /\ threads = Idle /\ parse = Idle

\* a == b, b == c, a == c and a.cmp(&b)
ErrorsCompare ==
    /\ errors.stage = "given"
    /\ errors' = [errors EXCEPT !.stage = "compared",
                                !.ab = ErrorEq(errors.a, errors.b),
                                !.bc = ErrorEq(errors.b, errors.c),
                                !.ac = ErrorEq(errors.a, errors.c),
                                !.cmp_ab = ErrorCmp(errors.a, errors.b)]
    /\ UNCHANGED <<REGISTRY, runtimes, last, call, eval, eq, threads, parse>>

ErrorsNext == ErrorsCompare

SpecErrors == ErrorsInit /\ [][ErrorsNext]_vars

\* C30: equality of errors is an equivalence consistent with their order:
\* a == b exactly when a.cmp(&b) is Equal, and a == b with b == c gives
\* a == c.
C30_EqualityConsistent ==
    errors.stage = "compared" =>
        /\ errors.ab <=> errors.cmp_ab = "Equal"
        /\ (errors.ab /\ errors.bc) => errors.ac

\* An error without a position equals two errors whose positions differ,
\* and those two are not equal.
C30_NotTransitive ==
    /\ errors.stage = "compared"
    /\ errors.a = Error("Syntax", <<"a">>, SomeOf(Position(1, 1)))
    /\ errors.b = Error("Syntax", <<"a">>, NoneOf)
    /\ errors.c = Error("Syntax", <<"a">>, SomeOf(Position(2, 1)))
    /\ errors.ab /\ errors.bc /\ ~errors.ac

=============================================================================
